---- MODULE Spec2Model ----
(***************************************************************************)
(* Model of the obsidian-vector-search plugin (src/unnamed/part_000,       *)
(* lines 1-917: the current version of main.ts).                           *)
(*                                                                         *)
(* The plugin runs on one JavaScript event loop.  Every handler runs       *)
(* synchronously until it reaches an `await` on real I/O (a vault read, a  *)
(* fetch to Ollama, an adapter read/write); there it is suspended and any  *)
(* other handler may run.  One action of this model is one such            *)
(* synchronous stretch: the code from one suspension point to the next.    *)
(* An `await` on a value that is already available (ensureRequirements     *)
(* returning the cached `true`, the Debouncer returned by                  *)
(* debouncedProcessFile) only yields to the microtask queue and is not a   *)
(* suspension point.                                                       *)
(*                                                                         *)
(* Consecutive awaits on the adapter inside one call are taken together:   *)
(* saveVectorStore's exists/mkdir/write is one write of the payload taken  *)
(* when the function was called, loadVectorStore's exists/read is one      *)
(* read, and the saveSettings that ends processFile, the delete handler    *)
(* and the "Clear index" handler is taken with the step before it.         *)
(*                                                                         *)
(* History kept beside the program's state: the fields outcome and overlap *)
(* of a buildVectorIndex invocation, the fields okIdx, hadBefore and       *)
(* interfered of a processFile invocation, the fields cached, fetched,     *)
(* liveness, listing, body and notice of an ensureRequirements invocation, *)
(* the field answer of a getEmbedding invocation, and the variables        *)
(* runStart, needsIndex, budget and stale.  No guard of the program reads  *)
(* them.                                                                   *)
(*                                                                         *)
(* Spec, SpecRebuild, SpecIncremental and SpecIndexing take the live check *)
(* of the requirements and a call of getEmbedding as one step each;        *)
(* SpecGate and SpecEmbed follow these two functions await by await, and   *)
(* SpecLoad follows loadVectorStore on a backing file of any content.      *)
(* SpecSearch follows performSearch on stores with any embeddings,         *)
(* SpecCosine applies cosineSimilarity to pairs of vectors, SpecChunking   *)
(* follows splitIntoChunks on any text and configuration, and              *)
(* SpecModelChange interleaves processFile with edits of the model name.   *)
(***************************************************************************)
EXTENDS Integers, Sequences, FiniteSets, TLC

VARIABLES
    vault,          \* the host's markdown files: TFile objects (path is mutable) and their text
    vectorStore,    \* this.vectorStore : Map<string, VectorData>, in insertion order
    disk,           \* the backing file vectors.json
    settings,       \* this.settings (the fields the indexer reads and writes)
    requirementsOk, \* this.requirementsOk : boolean | null
    isIndexing,     \* this.isIndexing
    cancelIndexing, \* this.cancelIndexing
    pendingFile,    \* the argument held by the one Debouncer (debouncedProcessFile)
    builds,         \* the invocations of buildVectorIndex
    procs,          \* the invocations of processFile
    dels,           \* the invocations of the 'delete' handler, one per file
    clr,            \* the invocation of the "Clear index" button handler
    runStart,       \* history: store and persisted records when the current rebuild started
    needsIndex,     \* history: a modify/rename event on the file has not been read by a processFile yet
    budget,         \* history: number of host events injected so far
    gates,          \* the invocations of ensureRequirements followed call by call
    stale,          \* history: a server setting was edited and ensureRequirements not called since
    embeds,         \* the invocations of getEmbedding followed call by call
    startup,        \* the run of loadVectorStore on a backing file of any content
    searches,       \* the invocations of performSearch
    cosine,         \* an application of cosineSimilarity and of the test of line 713
    chunking        \* a call of splitIntoChunks followed iteration by iteration

(* the calls that are followed one function at a time *)
(* the search of the modal, its similarity function and the chunker *)
callVars == <<searches, cosine, chunking>>

unitVars == <<gates, stale, embeds, startup, callVars>>

vars == <<vault, vectorStore, disk, settings, requirementsOk, isIndexing, cancelIndexing,
          pendingFile, builds, procs, dels, clr, runStart, needsIndex, budget, unitVars>>

----------------------------------------------------------------------------
(* Bounds of the model *)

MaxEvents == 2
MaxFileRecords == 2

Files == {"f1", "f2"}
Paths == {"a.md", "b.md", "c.md"}
Builds == {"b1", "b2"}
Procs == {"p1", "p2"}
GateCalls == {"g1", "g2"}
EmbedCalls == {"e1", "e2"}
Searches == {"s1"}

NoFile == "none"

(* Document texts: sequences of characters *)
TextLong == <<"x", "\n", "y">>
TextShort == <<"z">>
Texts == {TextLong, TextShort}

----------------------------------------------------------------------------
(* Sequence helpers *)

Range(s) == {s[i] : i \in 1..Len(s)}

Min(a, b) == IF a < b THEN a ELSE b

(* text.slice(from, to) with 0-based offsets, 0 <= from <= to <= length *)
Slice(text, from, to) == SubSeq(text, from + 1, to)

(* text.split('\n').length - 1: the number of newline characters *)
Newlines(text) == Cardinality({i \in 1..Len(text) : text[i] = "\n"})

(* The characters String.prototype.trim removes, among those the texts use *)
Whitespace == {" ", "\n", "\t"}

(* a faulty variant: only the empty line is blank *)
IsBlank_EmptyOnly(s) == Len(s) = 0

(* s.trim().length === 0 *)
IsBlank(s) == \A i \in 1..Len(s) : s[i] \in Whitespace

(* text.split('\n'): always at least one (possibly empty) line *)
RECURSIVE SplitLines(_)
SplitLines(text) ==
    IF \A i \in 1..Len(text) : text[i] # "\n"
    THEN <<text>>
    ELSE LET k == CHOOSE i \in 1..Len(text) :
                      /\ text[i] = "\n"
                      /\ \A j \in 1..(i - 1) : text[j] # "\n"
         IN <<SubSeq(text, 1, k - 1)>> \o SplitLines(SubSeq(text, k + 1, Len(text)))

----------------------------------------------------------------------------
(* splitIntoChunks *)

TextChunk(content, from, to) ==
    [text |-> Slice(content, from, to), startOffset |-> from, endOffset |-> to]

(* the `for (const line of lines)` loop of the paragraph strategy *)
RECURSIVE ParagraphScan(_, _, _, _, _)
ParagraphScan(lines, k, offset, paragraphStart, paragraphs) ==
    IF k > Len(lines)
    THEN [paragraphs |-> paragraphs, paragraphStart |-> paragraphStart]
    ELSE LET line == lines[k]
             lineEnd == offset + Len(line)
             isBlank == IsBlank(line)
         IN ParagraphScan(lines, k + 1, lineEnd + 1,
                IF isBlank THEN lineEnd + 1 ELSE paragraphStart,
                IF isBlank /\ paragraphStart < offset
                THEN Append(paragraphs, [start |-> paragraphStart, end |-> offset])
                ELSE paragraphs)

Paragraphs(content) ==
    LET scan == ParagraphScan(SplitLines(content), 1, 0, 0, <<>>)
    IN IF scan.paragraphStart < Len(content)
       THEN Append(scan.paragraphs, [start |-> scan.paragraphStart, end |-> Len(content)])
       ELSE scan.paragraphs

(* a faulty variant: a chunk of exactly chunkSize characters is not made *)
ExceedsChunkSize_AtTheLimit(nextLength, chunkSize, chunkLength) ==
    nextLength >= chunkSize /\ chunkLength > 0

(* line 431: nextLength > this.settings.chunkSize && chunkLength > 0 *)
ExceedsChunkSize(nextLength, chunkSize, chunkLength) ==
    nextLength > chunkSize /\ chunkLength > 0

(* the `for (const paragraph of paragraphs)` loop; chunkStart = -1 means no open chunk *)
RECURSIVE ParagraphAccumulate(_, _, _, _, _, _, _, _)
ParagraphAccumulate(content, paragraphs, k, chunkSize, chunkStart, chunkEnd, chunkLength, chunks) ==
    IF k > Len(paragraphs)
    THEN IF chunkStart # -1
         THEN Append(chunks, TextChunk(content, chunkStart, chunkEnd))
         ELSE chunks
    ELSE LET paragraph == paragraphs[k]
             paragraphText == Slice(content, paragraph.start, paragraph.end)
             gap == paragraph.start - chunkEnd
             nextLength == chunkLength + gap + Len(paragraphText)
         IN IF IsBlank(paragraphText)
            THEN ParagraphAccumulate(content, paragraphs, k + 1, chunkSize,
                                     chunkStart, chunkEnd, chunkLength, chunks)
            ELSE IF chunkStart = -1
            THEN ParagraphAccumulate(content, paragraphs, k + 1, chunkSize,
                                     paragraph.start, paragraph.end, Len(paragraphText), chunks)
            ELSE IF ExceedsChunkSize(nextLength, chunkSize, chunkLength)
            THEN ParagraphAccumulate(content, paragraphs, k + 1, chunkSize,
                                     paragraph.start, paragraph.end, Len(paragraphText),
                                     Append(chunks, TextChunk(content, chunkStart, chunkEnd)))
            ELSE ParagraphAccumulate(content, paragraphs, k + 1, chunkSize,
                                     chunkStart, paragraph.end, nextLength, chunks)

(* the `while (i < content.length)` loop of the character strategy.  The    *)
(* loop does not end when chunkSize - chunkOverlap <= 0 and the content is   *)
(* not empty; the operator is only applied where the loop ends.              *)
RECURSIVE CharacterChunks(_, _, _, _)
CharacterChunks(content, i, chunkSize, chunkOverlap) ==
    IF i < Len(content)
    THEN <<TextChunk(content, i, Min(i + chunkSize, Len(content)))>>
         \o CharacterChunks(content, i + chunkSize - chunkOverlap, chunkSize, chunkOverlap)
    ELSE <<>>

splitIntoChunks(content, cfg) ==
    IF cfg.chunkSize = 0
    THEN <<TextChunk(content, 0, Len(content))>>
    ELSE IF cfg.chunkingStrategy = "paragraph"
    THEN ParagraphAccumulate(content, Paragraphs(content), 1, cfg.chunkSize, -1, -1, 0, <<>>)
    ELSE CharacterChunks(content, 0, cfg.chunkSize, cfg.chunkOverlap)


----------------------------------------------------------------------------
(* The vector store: a JavaScript Map, kept as the sequence of its entries  *)
(* in insertion order.  A key `${path}#${chunkIndex}` is the pair            *)
(* <<path, chunkIndex>>.                                                     *)

Key(path, chunkIndex) == <<path, chunkIndex>>

MapHas(m, key) == \E j \in 1..Len(m) : m[j].key = key

(* Map.prototype.set: an existing key keeps its position *)
MapSet(m, key, value) ==
    IF MapHas(m, key)
    THEN [j \in 1..Len(m) |-> IF m[j].key = key THEN [key |-> key, value |-> value] ELSE m[j]]
    ELSE Append(m, [key |-> key, value |-> value])

(* Array.from(map.values()) *)
MapValues(m) == [j \in 1..Len(m) |-> m[j].value]

(* the records of a store or of a payload, as a set *)
RecordSet(vectors) == Range(vectors)

(* Vault paths are already normalized (forward slashes, no leading or       *)
(* trailing slash), and normalizePath leaves a normalized path as it is.     *)
normalizePath(path) == path

(* file.basename: the file name without its extension *)
Basename(path) ==
    CASE path = "a.md" -> "a"
      [] path = "b.md" -> "b"
      [] path = "c.md" -> "c"

(* a faulty variant: the records of every path are removed *)
removeFileVectors_EveryPath(m, filePath) == <<>>

(* a faulty variant: the entry's key, not its record's path, is compared with the path *)
removeFileVectors_ByKey(m, filePath) ==
    LET normalizedPath == normalizePath(filePath)
        keep(entry) == entry.key # normalizedPath
    IN SelectSeq(m, keep)

removeFileVectors(m, filePath) ==
    LET normalizedPath == normalizePath(filePath)
        keep(entry) == entry.value.path # normalizedPath
    IN SelectSeq(m, keep)

(* The elements of a parsed JSON array are records: an object is the record *)
(* of its properties, null is JNull and a number is JNumber.                  *)
JNull == [null |-> TRUE]
JNumber == [number |-> 1]

IsPrimitive(v) == "number" \in DOMAIN v

(* the own enumerable properties that {...v} copies *)
OwnProperties(v) == IF IsPrimitive(v) THEN {} ELSE DOMAIN v

HasProperty(v, name) == name \in OwnProperties(v)

(* `${v.path}`: an absent property reads as undefined *)
PathOf(v) == IF HasProperty(v, "path") THEN v.path ELSE "undefined"

(* Number.isFinite(x) for a property that is present *)
IsFiniteNumber(x) == x \in Int

(* a faulty variant: the key is made with the position, the record keeps its own index *)
LoadedEntry_KeyByPosition(v, index) ==
    [key |-> Key(PathOf(v), index), value |-> v]

(* lines 191-195: the entry made of element v at position index (0-based) *)
LoadedEntry(v, index) ==
    LET chunkIndex == IF HasProperty(v, "chunkIndex") /\ IsFiniteNumber(v.chunkIndex)
                      THEN v.chunkIndex
                      ELSE index
    IN [key |-> Key(PathOf(v), chunkIndex),
        value |-> [n \in OwnProperties(v) \cup {"chunkIndex"} |->
                      IF n = "chunkIndex" THEN chunkIndex ELSE v[n]]]

(* new Map(vectors.map((v, index) => [key, {...v, chunkIndex}])) *)
RECURSIVE MapFromVectors(_, _, _)
MapFromVectors(vectors, j, m) ==
    IF j > Len(vectors)
    THEN m
    ELSE LET entry == LoadedEntry(vectors[j], j - 1)
         IN MapFromVectors(vectors, j + 1, MapSet(m, entry.key, entry.value))

(* the records a list of well-formed vectors gives when it is loaded *)
PersistedRecords(vectors) == RecordSet(MapValues(MapFromVectors(vectors, 1, <<>>)))

(* line 192: reading v.chunkIndex of null throws a TypeError *)
MapFromVectorsThrows(vectors) == \E j \in 1..Len(vectors) : vectors[j] = JNull

(* The backing file: it exists or not, adapter.read succeeds or throws,     *)
(* JSON.parse succeeds or throws, the parsed value is an array or not, and    *)
(* `vectors` are the elements of the array                                    *)
NoDisk ==
    [exists |-> FALSE, readable |-> FALSE, parses |-> FALSE, isArray |-> FALSE, vectors |-> <<>>]
DiskWith(payload) ==
    [exists |-> TRUE, readable |-> TRUE, parses |-> TRUE, isArray |-> TRUE, vectors |-> payload]

(* The embedding service is outside the repository: an answer is either a   *)
(* failure (getEmbedding returns []) or the vector of the text, here a       *)
(* fixed function of the text.                                               *)
OllamaEmbedding(text) == <<Len(text), Newlines(text) + 1>>

(* The request names the model (line 483).  The vectors of another model    *)
(* have another dimension: here nomic-embed-text gives two components and    *)
(* all-minilm one.                                                           *)
EmbeddingModels == {"nomic-embed-text:latest", "all-minilm"}
ModelEmbedding(modelName, text) ==
    IF modelName = "all-minilm" THEN <<Len(text)>> ELSE OllamaEmbedding(text)

(* the chunking configuration of the model's settings *)
ChunkingDefaults == [chunkSize |-> 2, chunkOverlap |-> 0, chunkingStrategy |-> "character"]

(* String.prototype.slice(start, end) for any integers: a negative index    *)
(* counts from the end of the string                                         *)
RelativeIndex(index, length) ==
    IF index < 0 THEN (IF length + index < 0 THEN 0 ELSE length + index)
    ELSE Min(index, length)

StringSlice(text, start, end) ==
    SubSeq(text, RelativeIndex(start, Len(text)) + 1, RelativeIndex(end, Len(text)))

(* a faulty variant: the test is made for the character strategy only *)
NoChunking_CharacterOnly(cfg) == cfg.chunkSize = 0 /\ cfg.chunkingStrategy = "character"

(* line 382: this.settings.chunkSize === 0 *)
NoChunking(cfg) == cfg.chunkSize = 0

(* a faulty variant: the loop goes on behind the chunk, without overlap *)
NextStart_BehindChunk(i, cfg) == i + cfg.chunkSize

(* line 469: i += this.settings.chunkSize - this.settings.chunkOverlap *)
NextStart(i, cfg) == i + cfg.chunkSize - cfg.chunkOverlap

(* a call of splitIntoChunks: its argument, the settings it reads, the      *)
(* variable i of the character loop and the chunks pushed                     *)
IdleChunking ==
    [pc |-> "idle", content |-> <<>>, cfg |-> ChunkingDefaults, i |-> 0, chunks |-> <<>>]

(* An answer of the embedding service to POST /api/embeddings: the fetch    *)
(* reaches the server or throws, the status is a success or not, the body     *)
(* parses as JSON or not, the parsed value is an object or null, its          *)
(* `embedding` field is missing, a scalar or an array, and `embedding` are    *)
(* the elements of the array.  An element that is not a number is             *)
(* NotANumber.                                                                *)
NotANumber == 99

IsNumber(x) == x # NotANumber

Answer(reached, ok, parses, isObject, field, embedding) ==
    [reached |-> reached, ok |-> ok, parses |-> parses, isObject |-> isObject,
     field |-> field, embedding |-> embedding]

Unreachable == Answer(FALSE, FALSE, FALSE, FALSE, "missing", <<>>)
ErrorStatus == Answer(TRUE, FALSE, FALSE, FALSE, "missing", <<>>)
NotJsonBody == Answer(TRUE, TRUE, FALSE, FALSE, "missing", <<>>)
NullBody == Answer(TRUE, TRUE, TRUE, FALSE, "missing", <<>>)
NoEmbeddingField == Answer(TRUE, TRUE, TRUE, TRUE, "missing", <<>>)
ScalarEmbeddingField == Answer(TRUE, TRUE, TRUE, TRUE, "scalar", <<>>)
ArrayAnswer(embedding) == Answer(TRUE, TRUE, TRUE, TRUE, "array", embedding)

(* the answers to the request for `text` sent with the model `modelName` *)
EmbedAnswers(modelName, text) ==
    {Unreachable, ErrorStatus, NotJsonBody, NullBody, NoEmbeddingField, ScalarEmbeddingField}
    \cup {ArrayAnswer(v) : v \in {<<>>, ModelEmbedding(modelName, text), <<NotANumber>>,
                                  <<Len(text), NotANumber>>}}

(* the texts sent to the service: the chunks of the documents (a query is   *)
(* any text)                                                                  *)
EmbedTexts ==
    Texts \cup UNION {{chunk.text : chunk \in Range(splitIntoChunks(text, ChunkingDefaults))} :
                        text \in Texts}

AllEmbedAnswers ==
    UNION {EmbedAnswers(modelName, text) : modelName \in EmbeddingModels, text \in EmbedTexts}

(* getEmbedding, lines 475-508: what it returns for an answer, whether it   *)
(* throws, and the Notice it raises                                           *)
getEmbedding(answer) ==
    IF ~answer.reached
    THEN [threw |-> FALSE, vector |-> <<>>, notice |-> "error"]
    ELSE IF ~answer.ok
    THEN [threw |-> FALSE, vector |-> <<>>, notice |-> "ollamaError"]
    ELSE IF ~answer.parses \/ ~answer.isObject
    THEN [threw |-> FALSE, vector |-> <<>>, notice |-> "error"]
    ELSE IF answer.field # "array"
    THEN [threw |-> FALSE, vector |-> <<>>, notice |-> "invalid"]
    ELSE [threw |-> FALSE, vector |-> answer.embedding, notice |-> "none"]

(* the answers followed while a document is indexed: every failure, the    *)
(* empty array and the vector of the text                                     *)
IndexerAnswers(modelName, text) ==
    {answer \in EmbedAnswers(modelName, text) :
        \A i \in 1..Len(answer.embedding) : IsNumber(answer.embedding[i])}

(* a faulty variant: no embedding is skipped *)
SkipsChunk_Never(embedding) == FALSE

(* lines 254 and 571: !embedding || embedding.length === 0 *)
SkipsChunk(embedding) == Len(embedding) = 0

(* The VectorData built for chunk i (0-based) of `content`, lines 250-266 and 567-583 *)
MakeVectorData(path, content, chunks, i, embedding) ==
    LET chunk == chunks[i + 1]
        startLine == Newlines(Slice(content, 0, chunk.startOffset))
        endLine == startLine + Newlines(chunk.text) + 1
    IN [path |-> normalizePath(path),
        embedding |-> embedding,
        title |-> <<Basename(path), i + 1, Len(chunks)>>,
        chunkIndex |-> i,
        startLine |-> startLine,
        endLine |-> endLine]

(* app.vault.getMarkdownFiles(): the files that exist, in the vault's order *)
FileOrder == <<"f1", "f2">>
getMarkdownFiles(v) ==
    LET present(f) == v[f].exists
    IN SelectSeq(FileOrder, present)

----------------------------------------------------------------------------
(* Search: cosineSimilarity (lines 511-523) and the scan of performSearch   *)
(* (lines 709-719).  The components of a vector are small integers; a        *)
(* similarity is the real number num / sqrt(den) with den > 0, or NaN, and   *)
(* similarities are compared exactly, by their signs and squares.            *)

Score(num, den) == [nan |-> FALSE, num |-> num, den |-> den]
NaNScore == [nan |-> TRUE, num |-> 0, den |-> 1]
(* the literal 0 of lines 513 and 520 *)
ZeroScore == Score(0, 1)

IsZeroScore(a) == ~a.nan /\ a.num = 0

(* a >= b on numbers: every comparison with NaN is false *)
ScoreGeq(a, b) ==
    /\ ~a.nan
    /\ ~b.nan
    /\ IF a.num >= 0
       THEN IF b.num >= 0 THEN a.num * a.num * b.den >= b.num * b.num * a.den ELSE TRUE
       ELSE IF b.num >= 0 THEN FALSE ELSE a.num * a.num * b.den <= b.num * b.num * a.den

(* an arithmetic operation on the vector gives NaN *)
HasNaN(vec) == \E i \in 1..Len(vec) : ~IsNumber(vec[i])

(* line 516: vec1.reduce((acc, val, i) => acc + val * vec2[i], 0) *)
RECURSIVE DotProduct(_, _, _)
DotProduct(vec1, vec2, i) ==
    IF i > Len(vec1) THEN 0 ELSE vec1[i] * vec2[i] + DotProduct(vec1, vec2, i + 1)

(* lines 517-518: the square of the magnitude *)
SumOfSquares(vec) == DotProduct(vec, vec, 1)

(* mag === 0 (NaN === 0 is false) *)
ZeroMagnitude(vec) == ~HasNaN(vec) /\ SumOfSquares(vec) = 0

(* a faulty variant: vectors of different lengths count as equal vectors *)
cosineSimilarity_NoLengthTest(vec1, vec2) ==
    IF Len(vec1) = 0 \/ Len(vec2) = 0
    THEN ZeroScore
    ELSE IF Len(vec1) # Len(vec2)
    THEN Score(1, 1)
    ELSE IF ZeroMagnitude(vec1) \/ ZeroMagnitude(vec2)
    THEN ZeroScore
    ELSE IF HasNaN(vec1) \/ HasNaN(vec2)
    THEN NaNScore
    ELSE Score(DotProduct(vec1, vec2, 1), SumOfSquares(vec1) * SumOfSquares(vec2))

(* lines 511-523 *)
cosineSimilarity(vec1, vec2) ==
    IF Len(vec1) = 0 \/ Len(vec2) = 0 \/ Len(vec1) # Len(vec2)
    THEN ZeroScore
    ELSE IF ZeroMagnitude(vec1) \/ ZeroMagnitude(vec2)
    THEN ZeroScore
    ELSE IF HasNaN(vec1) \/ HasNaN(vec2)
    THEN NaNScore
    ELSE Score(DotProduct(vec1, vec2, 1), SumOfSquares(vec1) * SumOfSquares(vec2))

(* settings.searchThreshold is kept in steps of the slider (line 834:       *)
(* setLimits(0, 1, 0.05)), so the threshold is searchThreshold / 20           *)
ThresholdScore(searchThreshold) == Score(searchThreshold, 400)

(* line 713: similarity >= this.plugin.settings.searchThreshold *)
Matches(similarity, searchThreshold) == ScoreGeq(similarity, ThresholdScore(searchThreshold))

(* line 712 for every value of the store, in the store's order *)
Scored(queryEmbedding, values) ==
    [j \in 1..Len(values) |->
        [vectorData |-> values[j],
         similarity |-> cosineSimilarity(queryEmbedding, values[j].embedding)]]

(* lines 711-716: the results pushed *)
Pushed(scored, searchThreshold) ==
    LET matches(result) == Matches(result.similarity, searchThreshold)
    IN SelectSeq(scored, matches)

(* the place of a result in a list sorted by non-increasing similarity:     *)
(* behind every result that is not smaller (Array.prototype.sort is stable)   *)
InsertResult(sorted, result) ==
    LET k == Cardinality({i \in 1..Len(sorted) :
                             ScoreGeq(sorted[i].similarity, result.similarity)})
    IN SubSeq(sorted, 1, k) \o <<result>> \o SubSeq(sorted, k + 1, Len(sorted))

RECURSIVE SortFrom(_, _, _)
SortFrom(results, j, sorted) ==
    IF j > Len(results) THEN sorted
    ELSE SortFrom(results, j + 1, InsertResult(sorted, results[j]))

(* a faulty variant: the results stay in the order of the store *)
SortResults_StoreOrder(results) == results

(* line 718: results.sort((a, b) => b.similarity - a.similarity) *)
SortResults(results) == SortFrom(results, 1, <<>>)

(* line 719: results.slice(0, maxResults) *)
SliceResults(results, maxResults) == SubSeq(results, 1, Min(maxResults, Len(results)))

(* a faulty variant: only the empty query is too short *)
QueryTooShort_OnlyEmpty(query) == Len(query) = 0

(* line 684: query.length < 3 *)
QueryTooShort(query) == Len(query) < 3

(* the queries typed: none, two and three characters *)
Queries == {<<>>, <<"h", "i">>, <<"c", "a", "t">>}

(* the vectors of the records searched and of the queries *)
StoredEmbeddings ==
    {<<>>, <<1>>, <<1, 0>>, <<0, 1>>, <<1, 1>>, <<0, 0>>, <<-1, 1>>, <<NotANumber, 1>>}
QueryEmbeddings ==
    {<<>>, <<1>>, <<1, 0>>, <<1, 1>>, <<0, 0>>, <<-1, 0>>, <<NotANumber, 1>>}

(* the answers of the service to the request for a query *)
SearchAnswers ==
    {Unreachable, ErrorStatus, NotJsonBody, NullBody, NoEmbeddingField, ScalarEmbeddingField}
    \cup {ArrayAnswer(v) : v \in QueryEmbeddings}

(* an invocation of performSearch; sizeAtCall, checks, embedCalls and       *)
(* scored are history: the size of the store at line 690, the calls of        *)
(* ensureRequirements and of getEmbedding made, and every similarity computed *)
IdleSearch ==
    [pc |-> "idle", query |-> <<>>, sizeAtCall |-> 0, checks |-> 0, embedCalls |-> 0,
     queryEmbedding |-> <<>>, scored |-> <<>>, results |-> <<>>, message |-> "none"]

(* lines 712-713 applied to one pair of vectors *)
IdleCosine ==
    [pc |-> "idle", vec1 |-> <<>>, vec2 |-> <<>>, searchThreshold |-> 0,
     similarity |-> ZeroScore, matched |-> FALSE]

----------------------------------------------------------------------------
(* Initial state: the plugin has just been loaded (onload, loadSettings,    *)
(* loadVectorStore).                                                         *)

(* the values the two server settings take *)
OllamaURLs == {"http://localhost:11434", "http://remote:11434"}
ModelNames == {"nomic-embed-text:latest", "nomic-embed-text"}

ScaledSettings ==
    [ollamaURL |-> "http://localhost:11434", modelName |-> "nomic-embed-text:latest",
     chunkSize |-> ChunkingDefaults.chunkSize, chunkOverlap |-> ChunkingDefaults.chunkOverlap,
     chunkingStrategy |-> ChunkingDefaults.chunkingStrategy,
     searchThreshold |-> 10, maxResults |-> 2,
     vectors |-> <<>>, lastIndexTime |-> "null", lastIndexCount |-> 0]

InitialVault ==
    [f \in Files |->
        IF f = "f1" THEN [exists |-> TRUE, path |-> "a.md", content |-> TextLong]
                    ELSE [exists |-> TRUE, path |-> "b.md", content |-> TextShort]]

(* every chunk of one document, embedded *)
RECURSIVE IndexOfDocument(_, _, _, _)
IndexOfDocument(path, content, chunks, i) ==
    IF i >= Len(chunks)
    THEN <<>>
    ELSE <<MakeVectorData(path, content, chunks, i, OllamaEmbedding(chunks[i + 1].text))>>
         \o IndexOfDocument(path, content, chunks, i + 1)

(* the payload a completed rebuild of the initial vault has written *)
EarlierIndex ==
    IndexOfDocument("a.md", TextLong, splitIntoChunks(TextLong, ScaledSettings), 0)
    \o IndexOfDocument("b.md", TextShort, splitIntoChunks(TextShort, ScaledSettings), 0)

(* a record written before the chunkIndex field existed *)
WithoutChunkIndex(v) == [n \in (DOMAIN v) \ {"chunkIndex"} |-> v[n]]

(* the same payload as an older version wrote it and the migration of lines *)
(* 180-188 copied it into the backing file                                    *)
LegacyIndex == [j \in 1..Len(EarlierIndex) |-> WithoutChunkIndex(EarlierIndex[j])]

IdleBuild(outcome) ==
    [pc |-> "idle", files |-> <<>>, fi |-> 0, content |-> <<>>, chunks |-> <<>>, i |-> 0,
     payload |-> <<>>, outcome |-> outcome, overlap |-> FALSE]

IdleProc ==
    [pc |-> "idle", file |-> NoFile, content |-> <<>>, chunks |-> <<>>, i |-> 0,
     payload |-> <<>>, okIdx |-> {}, hadBefore |-> 0, interfered |-> FALSE]

IdleDel == [pc |-> "idle", payload |-> <<>>]

(* the body of a response to GET /api/tags: it parses as JSON or not, it has  *)
(* a `models` array or not, and the array lists the models by name             *)
NoBody == [parses |-> FALSE, hasModels |-> FALSE, names |-> {}]

(* an invocation of ensureRequirements; cached is the cache it was called   *)
(* with, fetched, liveness, listing and body are the history of its network   *)
(* calls, notice the Notice it has raised                                      *)
IdleGate ==
    [pc |-> "idle", showNotice |-> FALSE, cached |-> "null", fetched |-> 0, liveness |-> "none",
     listing |-> "none", body |-> NoBody, result |-> "none", notice |-> "none"]

(* the three call sites of getEmbedding: lines 253, 570 and 703 *)
EmbedCallers == {"processFile", "buildVectorIndex", "performSearch"}

(* an invocation of getEmbedding; caller and answer are the history of its *)
(* call site and of its request                                            *)
IdleEmbed ==
    [pc |-> "idle", caller |-> "none", text |-> <<>>, answer |-> Unreachable,
     returned |-> [threw |-> FALSE, vector |-> <<>>, notice |-> "none"]]

(* no search has been made *)
InitCalls ==
    /\ searches = [s \in Searches |-> IdleSearch]
    /\ cosine = IdleCosine
    /\ chunking = IdleChunking

Init ==
    /\ vault = InitialVault
    /\ disk \in {NoDisk, DiskWith(EarlierIndex), DiskWith(LegacyIndex)}
    /\ vectorStore = MapFromVectors(disk.vectors, 1, <<>>)
    /\ settings = [ScaledSettings EXCEPT
                      !.lastIndexTime = IF disk.exists THEN "set" ELSE "null",
                      !.lastIndexCount = Len(disk.vectors)]
    /\ requirementsOk = "null"
    /\ isIndexing = FALSE
    /\ cancelIndexing = FALSE
    /\ pendingFile = NoFile
    /\ builds = [b \in Builds |-> IdleBuild("none")]
    /\ procs = [p \in Procs |-> IdleProc]
    /\ dels = [f \in Files |-> IdleDel]
    /\ clr = "idle"
    /\ runStart = [store |-> {}, persisted |-> {}]
    /\ needsIndex = [f \in Files |-> FALSE]
    /\ budget = 0
    /\ gates = [g \in GateCalls |-> IdleGate]
    /\ stale = FALSE
    /\ embeds = [e \in EmbedCalls |-> IdleEmbed]
    /\ startup = "unset"
    /\ InitCalls

----------------------------------------------------------------------------
(* History of interference, kept for the processFile runs that are past     *)
(* their removeFileVectors call                                              *)

RecordsOfPath(m, path) == {m[j].value : j \in {k \in 1..Len(m) : m[k].value.path = path}}

PastRemoval(r) == r.pc \in {"embed", "write"}

(* another operation has changed the records of the running document *)
MarkInterference(ps, newStore, actor) ==
    [p \in Procs |->
        IF /\ p # actor
           /\ PastRemoval(ps[p])
           /\ RecordsOfPath(newStore, vault[ps[p].file].path)
                # RecordsOfPath(vectorStore, vault[ps[p].file].path)
        THEN [ps[p] EXCEPT !.interfered = TRUE]
        ELSE ps[p]]

(* the running document itself has been renamed or deleted *)
MarkFileEvent(ps, f) ==
    [p \in Procs |->
        IF PastRemoval(ps[p]) /\ ps[p].file = f
        THEN [ps[p] EXCEPT !.interfered = TRUE]
        ELSE ps[p]]

----------------------------------------------------------------------------
(* saveVectorStore: the payload is taken when the function is called, the   *)
(* file is written after the await on adapter.exists (lines 199-210)         *)

(* a faulty variant: the records are written without their chunkIndex *)
saveVectorStorePayload_NoChunkIndex(m) ==
    [j \in 1..Len(m) |-> WithoutChunkIndex(MapValues(m)[j])]

saveVectorStorePayload(m) == MapValues(m)

(* loadVectorStore, lines 165-197: the vectors read, [] when the file is    *)
(* absent and the settings hold no legacy vectors                            *)
LoadedVectors(d, legacy) ==
    IF d.exists
    THEN IF d.readable /\ d.parses /\ d.isArray THEN d.vectors ELSE <<>>
    ELSE legacy

loadVectorStore(d, legacy) == MapFromVectors(LoadedVectors(d, legacy), 1, <<>>)

(* the part of loadVectorStore that migrates legacy vectors (lines 180-188) *)
DiskAfterLoad(d, legacy) ==
    IF ~d.exists /\ Len(legacy) > 0 THEN DiskWith(legacy) ELSE d

SettingsAfterLoad(d, st) ==
    IF ~d.exists /\ Len(st.vectors) > 0
    THEN [st EXCEPT !.vectors = <<>>,
                    !.lastIndexCount = IF st.lastIndexCount = 0 THEN Len(st.vectors)
                                       ELSE st.lastIndexCount]
    ELSE st

----------------------------------------------------------------------------
(* buildVectorIndex, lines 525-615 *)

BuildActive(r) == r.pc \in {"read", "embed", "reload", "write", "saveSettings"}

(* lines 599-605, after the loop: reload on cancel, else take the payload of the save *)
BuildAfterLoop(r, canceled, store) ==
    IF canceled
    THEN [r EXCEPT !.pc = "reload", !.content = <<>>, !.chunks = <<>>, !.i = 0]
    ELSE [r EXCEPT !.pc = "write", !.content = <<>>, !.chunks = <<>>, !.i = 0,
                   !.payload = saveVectorStorePayload(store)]

(* lines 551-557, the head of `for (const file of files)` *)
BuildFileLoop(r, fi, cancel, store) ==
    IF fi > Len(r.files)
    THEN BuildAfterLoop(r, FALSE, store)
    ELSE IF cancel
    THEN BuildAfterLoop(r, TRUE, store)
    ELSE [r EXCEPT !.pc = "read", !.fi = fi, !.content = <<>>, !.chunks = <<>>, !.i = 0]

(* lines 560-570 and 589-597, the head of `for (let i = 0; i < chunks.length; i++)` *)
BuildChunkLoop(r, i, cancel, store) ==
    IF i < Len(r.chunks)
    THEN IF cancel
         THEN BuildAfterLoop(r, TRUE, store)
         ELSE [r EXCEPT !.pc = "embed", !.i = i]
    ELSE BuildFileLoop(r, r.fi + 1, cancel, store)

(* a faulty variant: the guard of line 531 is missing *)
AlreadyInProgress_NoGuard == FALSE

(* line 531: if (this.isIndexing) *)
AlreadyInProgress == isIndexing

(* a faulty variant: a run starts with the flag as the last run left it *)
CancelFlagAtStart_Kept(flag) == flag

(* line 537: this.cancelIndexing = false *)
CancelFlagAtStart(flag) == FALSE

(* lines 531-547: the guard, and the start of a run *)
BuildEnter(b, overlap) ==
    IF AlreadyInProgress
    THEN /\ builds' = [builds EXCEPT ![b] = [IdleBuild("rejected") EXCEPT !.overlap = overlap]]
         /\ UNCHANGED <<isIndexing, cancelIndexing, vectorStore, runStart, procs>>
    ELSE /\ isIndexing' = TRUE
         /\ cancelIndexing' = CancelFlagAtStart(cancelIndexing)
         /\ vectorStore' = <<>>
         /\ runStart' = [store |-> RecordSet(MapValues(vectorStore)),
                         persisted |-> PersistedRecords(disk.vectors)]
         /\ procs' = MarkInterference(procs, <<>>, "build")
         /\ builds' = [builds EXCEPT ![b] =
                BuildFileLoop([IdleBuild("none") EXCEPT !.files = getMarkdownFiles(vault),
                                                        !.overlap = overlap],
                              1, CancelFlagAtStart(cancelIndexing), <<>>)]

(* the invocation slots are interchangeable: a call takes the first idle one *)
FirstIdleBuild(b) ==
    /\ builds[b].pc = "idle"
    /\ \A c \in Builds : builds[c].pc = "idle" => (b = c \/ b = "b1")

(* line 526 with the gate's cache at true: no suspension before the guard *)
BuildCallCached(b) ==
    /\ FirstIdleBuild(b)
    /\ budget < MaxEvents
    /\ requirementsOk = "true"
    /\ budget' = budget + 1
    /\ BuildEnter(b, FALSE)
    /\ UNCHANGED unitVars
    /\ UNCHANGED <<vault, disk, settings, requirementsOk, pendingFile, dels, clr, needsIndex>>

(* line 526 with the cache at null or false: ensureRequirements(true) starts a live check *)
BuildCallCheck(b) ==
    /\ FirstIdleBuild(b)
    /\ budget < MaxEvents
    /\ requirementsOk # "true"
    /\ budget' = budget + 1
    /\ LET both == \E c \in Builds : builds[c].pc = "req"
       IN builds' = [c \in Builds |->
                        IF c = b THEN [IdleBuild("none") EXCEPT !.pc = "req", !.overlap = both]
                        ELSE IF builds[c].pc = "req" THEN [builds[c] EXCEPT !.overlap = TRUE]
                        ELSE builds[c]]
    /\ UNCHANGED unitVars
    /\ UNCHANGED <<vault, vectorStore, disk, settings, requirementsOk, isIndexing,
                   cancelIndexing, pendingFile, procs, dels, clr, runStart, needsIndex>>

(* lines 363-365 and 527-529: the live check says not ready *)
BuildNotReady(b) ==
    /\ builds[b].pc = "req"
    /\ requirementsOk' = "false"
    /\ builds' = [builds EXCEPT ![b] = IdleBuild("notReady")]
    /\ UNCHANGED unitVars
    /\ UNCHANGED <<vault, vectorStore, disk, settings, isIndexing, cancelIndexing,
                   pendingFile, procs, dels, clr, runStart, needsIndex, budget>>

(* lines 363-365 and 531-: the live check says ready *)
BuildReady(b) ==
    /\ builds[b].pc = "req"
    /\ requirementsOk' = "true"
    /\ BuildEnter(b, builds[b].overlap)
    /\ UNCHANGED unitVars
    /\ UNCHANGED <<vault, disk, settings, pendingFile, dels, clr, needsIndex, budget>>

(* lines 611-614: finally *)
BuildFinally(b, outcome) ==
    /\ isIndexing' = FALSE
    /\ builds' = [builds EXCEPT ![b] = IdleBuild(outcome)]

(* line 557: vault.read throws (the file is gone); the error leaves through finally *)
BuildReadFails(b) ==
    /\ builds[b].pc = "read"
    /\ ~vault[builds[b].files[builds[b].fi]].exists
    /\ BuildFinally(b, "failed")
    /\ UNCHANGED unitVars
    /\ UNCHANGED <<vault, vectorStore, disk, settings, requirementsOk, cancelIndexing,
                   pendingFile, procs, dels, clr, runStart, needsIndex, budget>>

(* lines 557-570: vault.read returns, the content is split *)
BuildRead(b) ==
    /\ builds[b].pc = "read"
    /\ vault[builds[b].files[builds[b].fi]].exists
    /\ LET content == vault[builds[b].files[builds[b].fi]].content
           r == [builds[b] EXCEPT !.content = content,
                                  !.chunks = splitIntoChunks(content, settings)]
       IN builds' = [builds EXCEPT ![b] = BuildChunkLoop(r, 0, cancelIndexing, vectorStore)]
    /\ UNCHANGED unitVars
    /\ UNCHANGED <<vault, vectorStore, disk, settings, requirementsOk, isIndexing,
                   cancelIndexing, pendingFile, procs, dels, clr, runStart, needsIndex, budget>>

(* lines 570-574: getEmbedding returns an empty vector, the chunk is skipped *)
BuildEmbedEmpty(b) ==
    /\ builds[b].pc = "embed"
    /\ \E answer \in IndexerAnswers(settings.modelName,
                                   builds[b].chunks[builds[b].i + 1].text) :
          /\ SkipsChunk(getEmbedding(answer).vector)
          /\ builds' = [builds EXCEPT ![b] =
                  BuildChunkLoop(builds[b], builds[b].i + 1, cancelIndexing, vectorStore)]
    /\ UNCHANGED unitVars
    /\ UNCHANGED <<vault, vectorStore, disk, settings, requirementsOk, isIndexing,
                   cancelIndexing, pendingFile, procs, dels, clr, runStart, needsIndex, budget>>

(* lines 570-587: getEmbedding returns the vector, the record is set *)
BuildEmbed(b) ==
    /\ builds[b].pc = "embed"
    /\ \E answer \in IndexerAnswers(settings.modelName,
                                   builds[b].chunks[builds[b].i + 1].text) :
          /\ ~SkipsChunk(getEmbedding(answer).vector)
          /\ LET r == builds[b]
                 path == vault[r.files[r.fi]].path
                 vectorData == MakeVectorData(path, r.content, r.chunks, r.i,
                                              getEmbedding(answer).vector)
                 store == MapSet(vectorStore, Key(vectorData.path, r.i), vectorData)
             IN /\ vectorStore' = store
                /\ procs' = MarkInterference(procs, store, "build")
                /\ builds' = [builds EXCEPT ![b] = BuildChunkLoop(r, r.i + 1, cancelIndexing, store)]
    /\ UNCHANGED unitVars
    /\ UNCHANGED <<vault, disk, settings, requirementsOk, isIndexing, cancelIndexing,
                   pendingFile, dels, clr, runStart, needsIndex, budget>>

(* lines 599-603 and 611-614: the canceled run reloads the persisted store *)
BuildReload(b) ==
    /\ builds[b].pc = "reload"
    /\ LET store == loadVectorStore(disk, settings.vectors)
       IN /\ vectorStore' = store
          /\ procs' = MarkInterference(procs, store, "build")
    /\ disk' = DiskAfterLoad(disk, settings.vectors)
    /\ settings' = SettingsAfterLoad(disk, settings)
    /\ BuildFinally(b, "canceled")
    /\ UNCHANGED unitVars
    /\ UNCHANGED <<vault, requirementsOk, cancelIndexing, pendingFile, dels, clr,
                   runStart, needsIndex, budget>>

(* lines 605-608: the payload is written, the index metadata is set *)
BuildWrite(b) ==
    /\ builds[b].pc = "write"
    /\ disk' = DiskWith(builds[b].payload)
    /\ settings' = [settings EXCEPT !.lastIndexTime = "set",
                                    !.lastIndexCount = Len(vectorStore)]
    /\ builds' = [builds EXCEPT ![b].pc = "saveSettings", ![b].payload = <<>>]
    /\ UNCHANGED unitVars
    /\ UNCHANGED <<vault, vectorStore, requirementsOk, isIndexing, cancelIndexing,
                   pendingFile, procs, dels, clr, runStart, needsIndex, budget>>

(* lines 608-614: saveSettings returns, the run ends *)
BuildDone(b) ==
    /\ builds[b].pc = "saveSettings"
    /\ BuildFinally(b, "completed")
    /\ UNCHANGED unitVars
    /\ UNCHANGED <<vault, vectorStore, disk, settings, requirementsOk, cancelIndexing,
                   pendingFile, procs, dels, clr, runStart, needsIndex, budget>>

(* lines 123-138: the cancel-vector-index command *)
CancelCommand ==
    /\ isIndexing
    /\ cancelIndexing' = TRUE
    /\ UNCHANGED unitVars
    /\ UNCHANGED <<vault, vectorStore, disk, settings, requirementsOk, isIndexing,
                   pendingFile, builds, procs, dels, clr, runStart, needsIndex, budget>>

----------------------------------------------------------------------------
(* The debouncer (lines 72-77) and processFile (lines 235-282).  There is   *)
(* one Debouncer for all files: a call replaces the argument it holds, and   *)
(* when its timer fires it calls processFile with the argument of the last   *)
(* call.                                                                     *)

(* lines 248-253 and 272-273, the head of the chunk loop; after the loop     *)
(* saveVectorStore takes its payload                                          *)
ProcChunkLoop(r, i, store) ==
    IF i < Len(r.chunks)
    THEN [r EXCEPT !.pc = "embed", !.i = i]
    ELSE [r EXCEPT !.pc = "write", !.i = i, !.payload = saveVectorStorePayload(store)]

FirstIdleProc(p) ==
    /\ procs[p].pc = "idle"
    /\ \A q \in Procs : procs[q].pc = "idle" => (p = q \/ p = "p1")

(* the timer fires; line 237 with the cache at true: on to vault.read *)
TimerFireCached(p) ==
    /\ pendingFile # NoFile
    /\ FirstIdleProc(p)
    /\ requirementsOk = "true"
    /\ procs' = [procs EXCEPT ![p] = [IdleProc EXCEPT !.pc = "read", !.file = pendingFile]]
    /\ pendingFile' = NoFile
    /\ UNCHANGED unitVars
    /\ UNCHANGED <<vault, vectorStore, disk, settings, requirementsOk, isIndexing,
                   cancelIndexing, builds, dels, clr, runStart, needsIndex, budget>>

(* the timer fires; lines 237-240 and 359-361 with the cache at false: return *)
TimerFireNotReady ==
    /\ pendingFile # NoFile
    /\ requirementsOk = "false"
    /\ pendingFile' = NoFile
    /\ needsIndex' = [needsIndex EXCEPT ![pendingFile] = FALSE]
    /\ UNCHANGED unitVars
    /\ UNCHANGED <<vault, vectorStore, disk, settings, requirementsOk, isIndexing,
                   cancelIndexing, builds, procs, dels, clr, runStart, budget>>

(* the timer fires; line 237 with the cache at null: a live check starts *)
TimerFireCheck(p) ==
    /\ pendingFile # NoFile
    /\ FirstIdleProc(p)
    /\ requirementsOk = "null"
    /\ procs' = [procs EXCEPT ![p] = [IdleProc EXCEPT !.pc = "req", !.file = pendingFile]]
    /\ pendingFile' = NoFile
    /\ UNCHANGED unitVars
    /\ UNCHANGED <<vault, vectorStore, disk, settings, requirementsOk, isIndexing,
                   cancelIndexing, builds, dels, clr, runStart, needsIndex, budget>>

(* lines 363-365 and 238-240: the live check says not ready *)
ProcNotReady(p) ==
    /\ procs[p].pc = "req"
    /\ requirementsOk' = "false"
    /\ needsIndex' = [needsIndex EXCEPT ![procs[p].file] = FALSE]
    /\ procs' = [procs EXCEPT ![p] = IdleProc]
    /\ UNCHANGED unitVars
    /\ UNCHANGED <<vault, vectorStore, disk, settings, isIndexing, cancelIndexing,
                   pendingFile, builds, dels, clr, runStart, budget>>

(* lines 363-365 and 242: the live check says ready *)
ProcReady(p) ==
    /\ procs[p].pc = "req"
    /\ requirementsOk' = "true"
    /\ procs' = [procs EXCEPT ![p].pc = "read"]
    /\ UNCHANGED unitVars
    /\ UNCHANGED <<vault, vectorStore, disk, settings, isIndexing, cancelIndexing,
                   pendingFile, builds, dels, clr, runStart, needsIndex, budget>>

(* lines 242 and 278-281: vault.read throws (the file is gone) *)
ProcReadFails(p) ==
    /\ procs[p].pc = "read"
    /\ ~vault[procs[p].file].exists
    /\ procs' = [procs EXCEPT ![p] = IdleProc]
    /\ UNCHANGED unitVars
    /\ UNCHANGED <<vault, vectorStore, disk, settings, requirementsOk, isIndexing,
                   cancelIndexing, pendingFile, builds, dels, clr, runStart, needsIndex, budget>>

(* lines 242-253: the content is read and split, the old records are removed *)
ProcRead(p) ==
    /\ procs[p].pc = "read"
    /\ vault[procs[p].file].exists
    /\ LET f == procs[p].file
           content == vault[f].content
           store == removeFileVectors(vectorStore, vault[f].path)
           r == [procs[p] EXCEPT !.content = content,
                                 !.chunks = splitIntoChunks(content, settings),
                                 !.hadBefore = Len(vectorStore) - Len(store)]
       IN /\ vectorStore' = store
          /\ procs' = MarkInterference([procs EXCEPT ![p] = ProcChunkLoop(r, 0, store)],
                                       store, p)
          /\ needsIndex' = [needsIndex EXCEPT ![f] = FALSE]
    /\ UNCHANGED unitVars
    /\ UNCHANGED <<vault, disk, settings, requirementsOk, isIndexing, cancelIndexing,
                   pendingFile, builds, dels, clr, runStart, budget>>

(* lines 253-257: getEmbedding returns an empty vector, the chunk is skipped *)
ProcEmbedEmpty(p) ==
    /\ procs[p].pc = "embed"
    /\ \E answer \in IndexerAnswers(settings.modelName,
                                   procs[p].chunks[procs[p].i + 1].text) :
          /\ SkipsChunk(getEmbedding(answer).vector)
          /\ procs' = [procs EXCEPT ![p] = ProcChunkLoop(procs[p], procs[p].i + 1, vectorStore)]
    /\ UNCHANGED unitVars
    /\ UNCHANGED <<vault, vectorStore, disk, settings, requirementsOk, isIndexing,
                   cancelIndexing, pendingFile, builds, dels, clr, runStart, needsIndex, budget>>

(* lines 253-270: getEmbedding returns the vector, the record is set *)
ProcEmbed(p) ==
    /\ procs[p].pc = "embed"
    /\ \E answer \in IndexerAnswers(settings.modelName,
                                   procs[p].chunks[procs[p].i + 1].text) :
          /\ ~SkipsChunk(getEmbedding(answer).vector)
          /\ LET r == procs[p]
                 vectorData == MakeVectorData(vault[r.file].path, r.content, r.chunks, r.i,
                                              getEmbedding(answer).vector)
                 store == MapSet(vectorStore, Key(vectorData.path, r.i), vectorData)
                 done == [r EXCEPT !.okIdx = r.okIdx \cup {r.i}]
             IN /\ vectorStore' = store
                /\ procs' = MarkInterference([procs EXCEPT ![p] = ProcChunkLoop(done, r.i + 1, store)],
                                             store, p)
    /\ UNCHANGED unitVars
    /\ UNCHANGED <<vault, disk, settings, requirementsOk, isIndexing, cancelIndexing,
                   pendingFile, builds, dels, clr, runStart, needsIndex, budget>>

(* lines 273-276: the payload is written, the index metadata is set *)
ProcWrite(p) ==
    /\ procs[p].pc = "write"
    /\ disk' = DiskWith(procs[p].payload)
    /\ settings' = [settings EXCEPT !.lastIndexTime = "set",
                                    !.lastIndexCount = Len(vectorStore)]
    /\ procs' = [procs EXCEPT ![p] = IdleProc]
    /\ UNCHANGED unitVars
    /\ UNCHANGED <<vault, vectorStore, requirementsOk, isIndexing, cancelIndexing,
                   pendingFile, builds, dels, clr, runStart, needsIndex, budget>>

----------------------------------------------------------------------------
(* The vault's events and the settings tab *)

(* lines 79-85: a document is edited *)
Modify(f, text) ==
    /\ vault[f].exists
    /\ budget < MaxEvents
    /\ text # vault[f].content
    /\ vault' = [vault EXCEPT ![f].content = text]
    /\ pendingFile' = f
    /\ needsIndex' = [needsIndex EXCEPT ![f] = TRUE]
    /\ budget' = budget + 1
    /\ UNCHANGED unitVars
    /\ UNCHANGED <<vectorStore, disk, settings, requirementsOk, isIndexing, cancelIndexing,
                   builds, procs, dels, clr, runStart>>

(* a faulty variant: the handler removes the records of the file's present path *)
RenameRemovedPath_New(oldPath, newPath) == newPath

(* line 90: the argument of removeFileVectors in the 'rename' handler *)
RenameRemovedPath(oldPath, newPath) == oldPath

(* lines 87-94: a document is renamed *)
Rename(f, newPath) ==
    /\ vault[f].exists
    /\ budget < MaxEvents
    /\ \A g \in Files : vault[g].exists => vault[g].path # newPath
    /\ vault' = [vault EXCEPT ![f].path = newPath]
    /\ LET store == removeFileVectors(vectorStore, RenameRemovedPath(vault[f].path, newPath))
       IN /\ vectorStore' = store
          /\ procs' = MarkFileEvent(MarkInterference(procs, store, "rename"), f)
    /\ pendingFile' = f
    /\ needsIndex' = [needsIndex EXCEPT ![f] = TRUE]
    /\ budget' = budget + 1
    /\ UNCHANGED unitVars
    /\ UNCHANGED <<disk, settings, requirementsOk, isIndexing, cancelIndexing,
                   builds, dels, clr, runStart>>

(* lines 96-100: a document is deleted; its records are removed and          *)
(* saveVectorStore takes its payload                                          *)
Delete(f) ==
    /\ vault[f].exists
    /\ budget < MaxEvents
    /\ vault' = [vault EXCEPT ![f].exists = FALSE]
    /\ LET store == removeFileVectors(vectorStore, vault[f].path)
       IN /\ vectorStore' = store
          /\ procs' = MarkFileEvent(MarkInterference(procs, store, "delete"), f)
          /\ dels' = [dels EXCEPT ![f] = [pc |-> "write",
                                          payload |-> saveVectorStorePayload(store)]]
    /\ needsIndex' = [needsIndex EXCEPT ![f] = FALSE]
    /\ budget' = budget + 1
    /\ UNCHANGED unitVars
    /\ UNCHANGED <<disk, settings, requirementsOk, isIndexing, cancelIndexing,
                   pendingFile, builds, clr, runStart>>

(* lines 100-103: the payload is written, the index metadata is set *)
DeleteWrite(f) ==
    /\ dels[f].pc = "write"
    /\ disk' = DiskWith(dels[f].payload)
    /\ settings' = [settings EXCEPT !.lastIndexTime = "set",
                                    !.lastIndexCount = Len(vectorStore)]
    /\ dels' = [dels EXCEPT ![f] = [pc |-> "done", payload |-> <<>>]]
    /\ UNCHANGED unitVars
    /\ UNCHANGED <<vault, vectorStore, requirementsOk, isIndexing, cancelIndexing,
                   pendingFile, builds, procs, clr, runStart, needsIndex, budget>>

(* lines 793-794 and 212-216: "Clear index" empties the store *)
ClearIndex ==
    /\ clr = "idle"
    /\ budget < MaxEvents
    /\ vectorStore' = <<>>
    /\ procs' = MarkInterference(procs, <<>>, "clear")
    /\ clr' = "remove"
    /\ budget' = budget + 1
    /\ UNCHANGED unitVars
    /\ UNCHANGED <<vault, disk, settings, requirementsOk, isIndexing, cancelIndexing,
                   pendingFile, builds, dels, runStart, needsIndex>>

(* lines 216-218 and 795-797: the backing file is removed, the metadata reset *)
ClearRemove ==
    /\ clr = "remove"
    /\ disk' = NoDisk
    /\ settings' = [settings EXCEPT !.lastIndexTime = "null", !.lastIndexCount = 0]
    /\ clr' = "idle"
    /\ UNCHANGED unitVars
    /\ UNCHANGED <<vault, vectorStore, requirementsOk, isIndexing, cancelIndexing,
                   pendingFile, builds, procs, dels, runStart, needsIndex, budget>>

(* lines 221-223 and 810-825: the Ollama URL or the model name is edited *)
markRequirementsStale ==
    /\ requirementsOk # "null"
    /\ budget < MaxEvents
    /\ requirementsOk' = "null"
    /\ budget' = budget + 1
    /\ UNCHANGED unitVars
    /\ UNCHANGED <<vault, vectorStore, disk, settings, isIndexing, cancelIndexing,
                   pendingFile, builds, procs, dels, clr, runStart, needsIndex>>

----------------------------------------------------------------------------
Next ==
    \/ \E b \in Builds : BuildCallCached(b)
    \/ \E b \in Builds : BuildCallCheck(b)
    \/ \E b \in Builds : BuildNotReady(b)
    \/ \E b \in Builds : BuildReady(b)
    \/ \E b \in Builds : BuildReadFails(b)
    \/ \E b \in Builds : BuildRead(b)
    \/ \E b \in Builds : BuildEmbedEmpty(b)
    \/ \E b \in Builds : BuildEmbed(b)
    \/ \E b \in Builds : BuildReload(b)
    \/ \E b \in Builds : BuildWrite(b)
    \/ \E b \in Builds : BuildDone(b)
    \/ CancelCommand
    \/ \E p \in Procs : TimerFireCached(p)
    \/ TimerFireNotReady
    \/ \E p \in Procs : TimerFireCheck(p)
    \/ \E p \in Procs : ProcNotReady(p)
    \/ \E p \in Procs : ProcReady(p)
    \/ \E p \in Procs : ProcReadFails(p)
    \/ \E p \in Procs : ProcRead(p)
    \/ \E p \in Procs : ProcEmbedEmpty(p)
    \/ \E p \in Procs : ProcEmbed(p)
    \/ \E p \in Procs : ProcWrite(p)
    \/ \E f \in Files, text \in Texts : Modify(f, text)
    \/ \E f \in Files, newPath \in Paths : Rename(f, newPath)
    \/ \E f \in Files : Delete(f)
    \/ \E f \in Files : DeleteWrite(f)
    \/ ClearIndex
    \/ ClearRemove
    \/ markRequirementsStale

Spec == Init /\ [][Next]_vars


(* The rebuild with its cancellation, while documents are deleted and the   *)
(* index is cleared under it                                                 *)
NextRebuild ==
    \/ \E b \in Builds : BuildCallCached(b)
    \/ \E b \in Builds : BuildCallCheck(b)
    \/ \E b \in Builds : BuildNotReady(b)
    \/ \E b \in Builds : BuildReady(b)
    \/ \E b \in Builds : BuildReadFails(b)
    \/ \E b \in Builds : BuildRead(b)
    \/ \E b \in Builds : BuildEmbedEmpty(b)
    \/ \E b \in Builds : BuildEmbed(b)
    \/ \E b \in Builds : BuildReload(b)
    \/ \E b \in Builds : BuildWrite(b)
    \/ \E b \in Builds : BuildDone(b)
    \/ CancelCommand
    \/ \E f \in Files : Delete(f)
    \/ \E f \in Files : DeleteWrite(f)
    \/ ClearIndex
    \/ ClearRemove
    \/ markRequirementsStale

SpecRebuild == Init /\ [][NextRebuild]_vars

(* The change events and the incremental re-index, with no rebuild running *)
NextIncremental ==
    \/ \E p \in Procs : TimerFireCached(p)
    \/ TimerFireNotReady
    \/ \E p \in Procs : TimerFireCheck(p)
    \/ \E p \in Procs : ProcNotReady(p)
    \/ \E p \in Procs : ProcReady(p)
    \/ \E p \in Procs : ProcReadFails(p)
    \/ \E p \in Procs : ProcRead(p)
    \/ \E p \in Procs : ProcEmbedEmpty(p)
    \/ \E p \in Procs : ProcEmbed(p)
    \/ \E p \in Procs : ProcWrite(p)
    \/ \E f \in Files, text \in Texts : Modify(f, text)
    \/ \E f \in Files, newPath \in Paths : Rename(f, newPath)
    \/ \E f \in Files : Delete(f)
    \/ \E f \in Files : DeleteWrite(f)
    \/ ClearIndex
    \/ ClearRemove
    \/ markRequirementsStale

SpecIncremental == Init /\ [][NextIncremental]_vars

(* The two indexers side by side, fed by edits of the documents: one call   *)
(* of buildVectorIndex and one of processFile at a time                       *)
NextIndexing ==
    \/ \E b \in {"b1"} : BuildCallCached(b)
    \/ \E b \in {"b1"} : BuildCallCheck(b)
    \/ \E b \in {"b1"} : BuildNotReady(b)
    \/ \E b \in {"b1"} : BuildReady(b)
    \/ \E b \in {"b1"} : BuildRead(b)
    \/ \E b \in {"b1"} : BuildEmbedEmpty(b)
    \/ \E b \in {"b1"} : BuildEmbed(b)
    \/ \E b \in {"b1"} : BuildWrite(b)
    \/ \E b \in {"b1"} : BuildDone(b)
    \/ \E p \in {"p1"} : TimerFireCached(p)
    \/ TimerFireNotReady
    \/ \E p \in {"p1"} : TimerFireCheck(p)
    \/ \E p \in {"p1"} : ProcNotReady(p)
    \/ \E p \in {"p1"} : ProcReady(p)
    \/ \E p \in {"p1"} : ProcRead(p)
    \/ \E p \in {"p1"} : ProcEmbedEmpty(p)
    \/ \E p \in {"p1"} : ProcEmbed(p)
    \/ \E p \in {"p1"} : ProcWrite(p)
    \/ \E f \in Files, text \in Texts : Modify(f, text)

SpecIndexing == Init /\ [][NextIndexing]_vars

----------------------------------------------------------------------------
(* The requirements gate call by call: ensureRequirements (lines 354-366)   *)
(* and checkRequirements (lines 298-352).  checkRequirements is suspended    *)
(* at fetch(/api/version), at fetch(/api/tags) and at modelResponse.json().  *)
(* The Ollama server is outside the repository: a fetch is answered with a   *)
(* success status, with another status, or it throws, and a body is any of   *)
(* TagsBodies.                                                                *)

FetchOutcomes == {"ok", "notOk", "threw"}

TagsBodies ==
    {NoBody}
    \cup {[parses |-> TRUE, hasModels |-> FALSE, names |-> {}]}
    \cup {[parses |-> TRUE, hasModels |-> TRUE, names |-> N] : N \in SUBSET ModelNames}

(* this.requirementsOk = isReady *)
CacheOf(isReady) == IF isReady THEN "true" ELSE "false"

(* a faulty variant: the cached false is returned to every caller *)
ReturnsCachedFalse_AnyCaller(showNotice, cache) == cache = "false"

(* line 359 *)
ReturnsCachedFalse(showNotice, cache) == ~showNotice /\ cache = "false"

(* a faulty variant: any listed model will do *)
HasModel_AnyName(body, modelName) == body.hasModels /\ body.names # {}

(* lines 326-328: models.models?.some(model => model.name === modelName) *)
HasModel(body, modelName) == body.hasModels /\ modelName \in body.names

(* the invocation slots are interchangeable: a call takes the first idle one *)
FirstIdleGate(g) ==
    /\ gates[g].pc = "idle"
    /\ \A h \in GateCalls : gates[h].pc = "idle" => (g = h \/ g = "g1")

(* lines 355-357: the cache holds true *)
GateCallCached(g, showNotice) ==
    /\ FirstIdleGate(g)
    /\ requirementsOk = "true"
    /\ gates' = [gates EXCEPT ![g] = [IdleGate EXCEPT !.pc = "done",
                                                      !.showNotice = showNotice,
                                                      !.cached = requirementsOk,
                                                      !.result = "true"]]
    /\ stale' = FALSE
    /\ UNCHANGED callVars
    /\ UNCHANGED <<vault, vectorStore, disk, settings, requirementsOk, isIndexing,
                   cancelIndexing, pendingFile, builds, procs, dels, clr, runStart,
                   needsIndex, budget, embeds, startup>>

(* lines 359-361: the cache holds false and the caller shows no notice *)
GateCallNotReady(g, showNotice) ==
    /\ FirstIdleGate(g)
    /\ requirementsOk # "true"
    /\ ReturnsCachedFalse(showNotice, requirementsOk)
    /\ gates' = [gates EXCEPT ![g] = [IdleGate EXCEPT !.pc = "done",
                                                      !.showNotice = showNotice,
                                                      !.cached = requirementsOk,
                                                      !.result = "false"]]
    /\ stale' = FALSE
    /\ UNCHANGED callVars
    /\ UNCHANGED <<vault, vectorStore, disk, settings, requirementsOk, isIndexing,
                   cancelIndexing, pendingFile, builds, procs, dels, clr, runStart,
                   needsIndex, budget, embeds, startup>>

(* lines 363 and 301: checkRequirements is called and fetches /api/version *)
GateCallCheck(g, showNotice) ==
    /\ FirstIdleGate(g)
    /\ requirementsOk # "true"
    /\ ~ReturnsCachedFalse(showNotice, requirementsOk)
    /\ gates' = [gates EXCEPT ![g] = [IdleGate EXCEPT !.pc = "version",
                                                      !.showNotice = showNotice,
                                                      !.cached = requirementsOk,
                                                      !.fetched = 1]]
    /\ stale' = FALSE
    /\ UNCHANGED callVars
    /\ UNCHANGED <<vault, vectorStore, disk, settings, requirementsOk, isIndexing,
                   cancelIndexing, pendingFile, builds, procs, dels, clr, runStart,
                   needsIndex, budget, embeds, startup>>

(* checkRequirements returns isReady, having raised `notice` when the caller *)
(* shows notices; lines 364-365 store and return it                           *)
GateEnd(g, r, isReady, notice) ==
    /\ gates' = [gates EXCEPT ![g] = [r EXCEPT !.pc = "done",
                                               !.result = CacheOf(isReady),
                                               !.notice = IF r.showNotice THEN notice
                                                          ELSE "none"]]
    /\ requirementsOk' = CacheOf(isReady)

(* lines 301-314 and 339-350: the answer to GET /api/version *)
GateVersion(g, outcome) ==
    /\ gates[g].pc = "version"
    /\ LET r == [gates[g] EXCEPT !.liveness = outcome]
       IN IF outcome = "ok"
          THEN /\ gates' = [gates EXCEPT ![g] = [r EXCEPT !.pc = "tags", !.fetched = 2]]
               /\ UNCHANGED requirementsOk
          ELSE GateEnd(g, r, FALSE, IF outcome = "notOk" THEN "connect" ELSE "requirements")
    /\ UNCHANGED callVars
    /\ UNCHANGED <<vault, vectorStore, disk, settings, isIndexing, cancelIndexing,
                   pendingFile, builds, procs, dels, clr, runStart, needsIndex, budget,
                   stale, embeds, startup>>

(* lines 314-323 and 339-350: the answer to GET /api/tags *)
GateTags(g, outcome) ==
    /\ gates[g].pc = "tags"
    /\ LET r == [gates[g] EXCEPT !.listing = outcome]
       IN IF outcome = "ok"
          THEN /\ gates' = [gates EXCEPT ![g] = [r EXCEPT !.pc = "json"]]
               /\ UNCHANGED requirementsOk
          ELSE GateEnd(g, r, FALSE, IF outcome = "notOk" THEN "models" ELSE "requirements")
    /\ UNCHANGED callVars
    /\ UNCHANGED <<vault, vectorStore, disk, settings, isIndexing, cancelIndexing,
                   pendingFile, builds, procs, dels, clr, runStart, needsIndex, budget,
                   stale, embeds, startup>>

(* lines 325-337 and 339-350: the body is parsed and searched for the model  *)
(* name the settings hold now                                                 *)
GateJson(g, body) ==
    /\ gates[g].pc = "json"
    /\ LET r == [gates[g] EXCEPT !.body = body]
       IN IF ~body.parses
          THEN GateEnd(g, r, FALSE, "requirements")
          ELSE IF HasModel(body, settings.modelName)
               THEN GateEnd(g, r, TRUE, "none")
               ELSE GateEnd(g, r, FALSE, "notFound")
    /\ UNCHANGED callVars
    /\ UNCHANGED <<vault, vectorStore, disk, settings, isIndexing, cancelIndexing,
                   pendingFile, builds, procs, dels, clr, runStart, needsIndex, budget,
                   stale, embeds, startup>>

(* lines 237-238, 526-527 and 696-697: the caller resumes with the result *)
GateResume(g) ==
    /\ gates[g].pc = "done"
    /\ gates' = [gates EXCEPT ![g] = IdleGate]
    /\ UNCHANGED callVars
    /\ UNCHANGED <<vault, vectorStore, disk, settings, requirementsOk, isIndexing,
                   cancelIndexing, pendingFile, builds, procs, dels, clr, runStart,
                   needsIndex, budget, stale, embeds, startup>>

(* lines 810-813: the "Ollama URL" field is edited *)
SetOllamaURL(value) ==
    /\ budget < MaxEvents
    /\ value # settings.ollamaURL
    /\ settings' = [settings EXCEPT !.ollamaURL = value]
    /\ requirementsOk' = "null"
    /\ stale' = TRUE
    /\ budget' = budget + 1
    /\ UNCHANGED callVars
    /\ UNCHANGED <<vault, vectorStore, disk, isIndexing, cancelIndexing, pendingFile,
                   builds, procs, dels, clr, runStart, needsIndex, gates, embeds, startup>>

(* lines 822-825: the "Model name" field is edited *)
SetModelName(value) ==
    /\ budget < MaxEvents
    /\ value # settings.modelName
    /\ settings' = [settings EXCEPT !.modelName = value]
    /\ requirementsOk' = "null"
    /\ stale' = TRUE
    /\ budget' = budget + 1
    /\ UNCHANGED callVars
    /\ UNCHANGED <<vault, vectorStore, disk, isIndexing, cancelIndexing, pendingFile,
                   builds, procs, dels, clr, runStart, needsIndex, gates, embeds, startup>>

NextGate ==
    \/ \E g \in GateCalls, showNotice \in BOOLEAN : GateCallCached(g, showNotice)
    \/ \E g \in GateCalls, showNotice \in BOOLEAN : GateCallNotReady(g, showNotice)
    \/ \E g \in GateCalls, showNotice \in BOOLEAN : GateCallCheck(g, showNotice)
    \/ \E g \in GateCalls, outcome \in FetchOutcomes : GateVersion(g, outcome)
    \/ \E g \in GateCalls, outcome \in FetchOutcomes : GateTags(g, outcome)
    \/ \E g \in GateCalls, body \in TagsBodies : GateJson(g, body)
    \/ \E g \in GateCalls : GateResume(g)
    \/ \E value \in OllamaURLs : SetOllamaURL(value)
    \/ \E value \in ModelNames : SetModelName(value)

SpecGate == Init /\ [][NextGate]_vars

----------------------------------------------------------------------------
(* loadVectorStore at startup (lines 165-197), for a backing file of any    *)
(* content                                                                    *)

JsonElements == RecordSet(EarlierIndex) \cup RecordSet(LegacyIndex) \cup {JNull, JNumber}

JsonArrays == UNION {[1..n -> JsonElements] : n \in 0..MaxFileRecords}

(* adapter.read throws *)
UnreadableFile ==
    [exists |-> TRUE, readable |-> FALSE, parses |-> FALSE, isArray |-> FALSE, vectors |-> <<>>]
(* JSON.parse throws *)
NotJsonFile ==
    [exists |-> TRUE, readable |-> TRUE, parses |-> FALSE, isArray |-> FALSE, vectors |-> <<>>]
(* the text parses to a value that is not an array *)
NotArrayFile ==
    [exists |-> TRUE, readable |-> TRUE, parses |-> TRUE, isArray |-> FALSE, vectors |-> <<>>]

BackingFiles ==
    {NoDisk, UnreadableFile, NotJsonFile, NotArrayFile} \cup {DiskWith(a) : a \in JsonArrays}

(* onload has read the settings and calls loadVectorStore (line 150) *)
InitLoad ==
    /\ vault = InitialVault
    /\ disk \in BackingFiles
    /\ vectorStore = <<>>
    /\ settings \in {ScaledSettings,
                     [ScaledSettings EXCEPT !.vectors = LegacyIndex, !.lastIndexTime = "set"]}
    /\ requirementsOk = "null"
    /\ isIndexing = FALSE
    /\ cancelIndexing = FALSE
    /\ pendingFile = NoFile
    /\ builds = [b \in Builds |-> IdleBuild("none")]
    /\ procs = [p \in Procs |-> IdleProc]
    /\ dels = [f \in Files |-> IdleDel]
    /\ clr = "idle"
    /\ runStart = [store |-> {}, persisted |-> {}]
    /\ needsIndex = [f \in Files |-> FALSE]
    /\ budget = 0
    /\ gates = [g \in GateCalls |-> IdleGate]
    /\ stale = FALSE
    /\ embeds = [e \in EmbedCalls |-> IdleEmbed]
    /\ startup = "start"
    /\ InitCalls

(* lines 165-197; the TypeError of line 192 leaves the function before the  *)
(* store is assigned                                                          *)
LoadVectorStore ==
    /\ startup = "start"
    /\ disk' = DiskAfterLoad(disk, settings.vectors)
    /\ settings' = SettingsAfterLoad(disk, settings)
    /\ IF MapFromVectorsThrows(LoadedVectors(disk, settings.vectors))
       THEN /\ startup' = "threw"
            /\ UNCHANGED vectorStore
       ELSE /\ startup' = "loaded"
            /\ vectorStore' = loadVectorStore(disk, settings.vectors)
    /\ UNCHANGED callVars
    /\ UNCHANGED <<vault, requirementsOk, isIndexing, cancelIndexing, pendingFile, builds,
                   procs, dels, clr, runStart, needsIndex, budget, gates, stale, embeds>>

NextLoad == LoadVectorStore

SpecLoad == InitLoad /\ [][NextLoad]_vars

----------------------------------------------------------------------------
(* getEmbedding call by call (lines 475-508) *)

(* line 477: the request is sent *)
EmbedCall(e, caller, text) ==
    /\ embeds[e].pc = "idle"
    /\ embeds' = [embeds EXCEPT ![e] = [IdleEmbed EXCEPT !.pc = "fetch",
                                                         !.caller = caller,
                                                         !.text = text]]
    /\ UNCHANGED callVars
    /\ UNCHANGED <<vault, vectorStore, disk, settings, requirementsOk, isIndexing,
                   cancelIndexing, pendingFile, builds, procs, dels, clr, runStart,
                   needsIndex, budget, gates, stale, startup>>

(* lines 488-507: the answer arrives and getEmbedding returns *)
EmbedAnswer(e, answer) ==
    /\ embeds[e].pc = "fetch"
    /\ answer \in EmbedAnswers(settings.modelName, embeds[e].text)
    /\ embeds' = [embeds EXCEPT ![e] = [embeds[e] EXCEPT !.pc = "done",
                                                         !.answer = answer,
                                                         !.returned = getEmbedding(answer)]]
    /\ UNCHANGED callVars
    /\ UNCHANGED <<vault, vectorStore, disk, settings, requirementsOk, isIndexing,
                   cancelIndexing, pendingFile, builds, procs, dels, clr, runStart,
                   needsIndex, budget, gates, stale, startup>>

NextEmbed ==
    \/ \E e \in EmbedCalls, caller \in EmbedCallers, text \in EmbedTexts :
          EmbedCall(e, caller, text)
    \/ \E e \in EmbedCalls, answer \in AllEmbedAnswers : EmbedAnswer(e, answer)

SpecEmbed == Init /\ [][NextEmbed]_vars

----------------------------------------------------------------------------
(* The search modal: performSearch, lines 683-721, and displayResults,      *)
(* lines 723-729.  The store is the one loaded from a backing file of        *)
(* records with any embeddings.                                              *)

MaxStoreRecords == 2

(* the records of the backing file, by position *)
SearchSlots ==
    <<[path |-> "a.md", chunkIndex |-> 0], [path |-> "a.md", chunkIndex |-> 1],
      [path |-> "b.md", chunkIndex |-> 0]>>

SearchRecord(j, embedding) ==
    [path |-> SearchSlots[j].path,
     embedding |-> embedding,
     title |-> <<Basename(SearchSlots[j].path), SearchSlots[j].chunkIndex + 1, 1>>,
     chunkIndex |-> SearchSlots[j].chunkIndex,
     startLine |-> 0,
     endLine |-> 1]

SearchPayloads ==
    UNION {{[j \in 1..n |-> SearchRecord(j, f[j])] : f \in [1..n -> StoredEmbeddings]} :
             n \in 0..MaxStoreRecords}

(* the values of the two search settings: thresholds 0, 0.5 and 0.75 *)
Thresholds == {0, 10, 15}
ResultLimits == {1, 2}

InitSearch ==
    /\ vault = InitialVault
    /\ \E payload \in SearchPayloads :
          /\ disk = DiskWith(payload)
          /\ vectorStore = MapFromVectors(payload, 1, <<>>)
    /\ settings \in {[ScaledSettings EXCEPT !.searchThreshold = t, !.maxResults = m] :
                        t \in Thresholds, m \in ResultLimits}
    /\ requirementsOk = "null"
    /\ isIndexing = FALSE
    /\ cancelIndexing = FALSE
    /\ pendingFile = NoFile
    /\ builds = [b \in Builds |-> IdleBuild("none")]
    /\ procs = [p \in Procs |-> IdleProc]
    /\ dels = [f \in Files |-> IdleDel]
    /\ clr = "idle"
    /\ runStart = [store |-> {}, persisted |-> {}]
    /\ needsIndex = [f \in Files |-> FALSE]
    /\ budget = 0
    /\ gates = [g \in GateCalls |-> IdleGate]
    /\ stale = FALSE
    /\ embeds = [e \in EmbedCalls |-> IdleEmbed]
    /\ startup = "unset"
    /\ InitCalls

SearchEnd(s, message) ==
    searches' = [searches EXCEPT ![s] = [searches[s] EXCEPT !.pc = "done",
                                                             !.message = message]]

(* lines 684-688: the query is too short *)
SearchTooShort(s, query) ==
    /\ searches[s].pc = "idle"
    /\ QueryTooShort(query)
    /\ searches' = [searches EXCEPT ![s] = [IdleSearch EXCEPT !.pc = "done",
                                                             !.query = query,
                                                             !.sizeAtCall = Len(vectorStore),
                                                             !.message = "tooShort"]]
    /\ UNCHANGED <<vault, vectorStore, disk, settings, requirementsOk, isIndexing,
                   cancelIndexing, pendingFile, builds, procs, dels, clr, runStart,
                   needsIndex, budget, gates, stale, embeds, startup, cosine, chunking>>

(* lines 690-694: the store is empty *)
SearchIndexEmpty(s, query) ==
    /\ searches[s].pc = "idle"
    /\ ~QueryTooShort(query)
    /\ Len(vectorStore) = 0
    /\ searches' = [searches EXCEPT ![s] = [IdleSearch EXCEPT !.pc = "done",
                                                             !.query = query,
                                                             !.message = "indexEmpty"]]
    /\ UNCHANGED <<vault, vectorStore, disk, settings, requirementsOk, isIndexing,
                   cancelIndexing, pendingFile, builds, procs, dels, clr, runStart,
                   needsIndex, budget, gates, stale, embeds, startup, cosine, chunking>>

(* line 696: ensureRequirements(true) is called *)
SearchCall(s, query) ==
    /\ searches[s].pc = "idle"
    /\ ~QueryTooShort(query)
    /\ Len(vectorStore) # 0
    /\ searches' = [searches EXCEPT ![s] = [IdleSearch EXCEPT !.pc = "gate",
                                                             !.query = query,
                                                             !.sizeAtCall = Len(vectorStore),
                                                             !.checks = 1]]
    /\ UNCHANGED <<vault, vectorStore, disk, settings, requirementsOk, isIndexing,
                   cancelIndexing, pendingFile, builds, procs, dels, clr, runStart,
                   needsIndex, budget, gates, stale, embeds, startup, cosine, chunking>>

(* lines 697-701: the live check says not ready *)
SearchNotReady(s) ==
    /\ searches[s].pc = "gate"
    /\ requirementsOk # "true"
    /\ requirementsOk' = "false"
    /\ SearchEnd(s, "unavailable")
    /\ UNCHANGED <<vault, vectorStore, disk, settings, isIndexing, cancelIndexing,
                   pendingFile, builds, procs, dels, clr, runStart, needsIndex, budget,
                   gates, stale, embeds, startup, cosine, chunking>>

(* line 703: the cache or the live check says ready, getEmbedding is called *)
SearchReady(s) ==
    /\ searches[s].pc = "gate"
    /\ requirementsOk' = "true"
    /\ searches' = [searches EXCEPT ![s] = [searches[s] EXCEPT !.pc = "embed",
                                                               !.embedCalls = 1]]
    /\ UNCHANGED <<vault, vectorStore, disk, settings, isIndexing, cancelIndexing,
                   pendingFile, builds, procs, dels, clr, runStart, needsIndex, budget,
                   gates, stale, embeds, startup, cosine, chunking>>

(* lines 704-707: getEmbedding returned the empty vector *)
SearchEmbedFails(s) ==
    /\ searches[s].pc = "embed"
    /\ \E answer \in SearchAnswers :
          /\ Len(getEmbedding(answer).vector) = 0
          /\ SearchEnd(s, "embedFailed")
    /\ UNCHANGED <<vault, vectorStore, disk, settings, requirementsOk, isIndexing,
                   cancelIndexing, pendingFile, builds, procs, dels, clr, runStart,
                   needsIndex, budget, gates, stale, embeds, startup, cosine, chunking>>

(* lines 709-719 and 723-729: the store is scanned, the results are sorted, *)
(* cut and displayed                                                          *)
SearchScan(s) ==
    /\ searches[s].pc = "embed"
    /\ \E answer \in SearchAnswers :
          /\ Len(getEmbedding(answer).vector) # 0
          /\ LET queryEmbedding == getEmbedding(answer).vector
                 scored == Scored(queryEmbedding, MapValues(vectorStore))
                 results == SliceResults(SortResults(Pushed(scored, settings.searchThreshold)),
                                         settings.maxResults)
             IN searches' = [searches EXCEPT ![s] =
                    [searches[s] EXCEPT !.pc = "done",
                                        !.queryEmbedding = queryEmbedding,
                                        !.scored = scored,
                                        !.results = results,
                                        !.message = IF Len(results) = 0 THEN "noResults"
                                                    ELSE "results"]]
    /\ UNCHANGED <<vault, vectorStore, disk, settings, requirementsOk, isIndexing,
                   cancelIndexing, pendingFile, builds, procs, dels, clr, runStart,
                   needsIndex, budget, gates, stale, embeds, startup, cosine, chunking>>

NextSearch ==
    \/ \E s \in Searches, query \in Queries : SearchTooShort(s, query)
    \/ \E s \in Searches, query \in Queries : SearchIndexEmpty(s, query)
    \/ \E s \in Searches, query \in Queries : SearchCall(s, query)
    \/ \E s \in Searches : SearchNotReady(s)
    \/ \E s \in Searches : SearchReady(s)
    \/ \E s \in Searches : SearchEmbedFails(s)
    \/ \E s \in Searches : SearchScan(s)
    \/ ClearIndex
    \/ ClearRemove

SpecSearch == InitSearch /\ [][NextSearch]_vars

(* cosineSimilarity on any pair of vectors, followed by the test of line 713 *)
InitCosine ==
    /\ Init
    /\ disk = DiskWith(EarlierIndex)

CosineCall(vec1, vec2, searchThreshold) ==
    /\ cosine.pc = "idle"
    /\ cosine' = [pc |-> "done", vec1 |-> vec1, vec2 |-> vec2,
                  searchThreshold |-> searchThreshold,
                  similarity |-> cosineSimilarity(vec1, vec2),
                  matched |-> Matches(cosineSimilarity(vec1, vec2), searchThreshold)]
    /\ UNCHANGED <<vault, vectorStore, disk, settings, requirementsOk, isIndexing,
                   cancelIndexing, pendingFile, builds, procs, dels, clr, runStart,
                   needsIndex, budget, gates, stale, embeds, startup, searches, chunking>>

NextCosine ==
    \E vec1 \in StoredEmbeddings \cup QueryEmbeddings,
       vec2 \in StoredEmbeddings \cup QueryEmbeddings,
       searchThreshold \in Thresholds : CosineCall(vec1, vec2, searchThreshold)

SpecCosine == InitCosine /\ [][NextCosine]_vars

----------------------------------------------------------------------------
(* The model name is edited between incremental updates: processFile, the   *)
(* 'modify' handler and the onChange handler of the model name.              *)

NextModelChange ==
    \/ \E p \in {"p1"} : TimerFireCached(p)
    \/ TimerFireNotReady
    \/ \E p \in {"p1"} : TimerFireCheck(p)
    \/ \E p \in {"p1"} : ProcNotReady(p)
    \/ \E p \in {"p1"} : ProcReady(p)
    \/ \E p \in {"p1"} : ProcRead(p)
    \/ \E p \in {"p1"} : ProcEmbedEmpty(p)
    \/ \E p \in {"p1"} : ProcEmbed(p)
    \/ \E p \in {"p1"} : ProcWrite(p)
    \/ \E f \in Files, text \in Texts : Modify(f, text)
    \/ \E value \in EmbeddingModels : SetModelName(value)

SpecModelChange == Init /\ [][NextModelChange]_vars

----------------------------------------------------------------------------
(* splitIntoChunks on any text and any configuration, lines 381-472; the    *)
(* while loop of the character strategy is followed one iteration at a time. *)

MaxChunks == 7

(* the texts split: empty, one line, two lines, two paragraphs, a text that *)
(* starts with a blank line, a line of four characters, three paragraphs,     *)
(* a paragraph of two lines before a blank line of one space                  *)
ChunkTexts ==
    {<<>>, <<"z">>, <<"x", "\n", "y">>, <<"a", "\n", "\n", "b">>, <<"\n", "a">>,
     <<"a", "b", "c", "d">>, <<"a", "\n", "\n", "b", "\n", "\n", "c">>,
     <<"a", "\n", "b", "\n", " ", "\n", "c">>}

(* the values of the three chunking settings, in characters *)
ChunkConfigs ==
    {[chunkSize |-> size, chunkOverlap |-> overlap, chunkingStrategy |-> strategy] :
        size \in 0..5, overlap \in 0..3, strategy \in {"character", "paragraph"}}

(* splitIntoChunks is called with content while the settings are cfg *)
InitChunking ==
    /\ vault = InitialVault
    /\ disk = NoDisk
    /\ vectorStore = <<>>
    /\ settings = ScaledSettings
    /\ requirementsOk = "null"
    /\ isIndexing = FALSE
    /\ cancelIndexing = FALSE
    /\ pendingFile = NoFile
    /\ builds = [b \in Builds |-> IdleBuild("none")]
    /\ procs = [p \in Procs |-> IdleProc]
    /\ dels = [f \in Files |-> IdleDel]
    /\ clr = "idle"
    /\ runStart = [store |-> {}, persisted |-> {}]
    /\ needsIndex = [f \in Files |-> FALSE]
    /\ budget = 0
    /\ gates = [g \in GateCalls |-> IdleGate]
    /\ stale = FALSE
    /\ embeds = [e \in EmbedCalls |-> IdleEmbed]
    /\ startup = "unset"
    /\ searches = [s \in Searches |-> IdleSearch]
    /\ cosine = IdleCosine
    /\ chunking \in {[IdleChunking EXCEPT !.pc = "call", !.content = content, !.cfg = cfg] :
                        content \in ChunkTexts, cfg \in ChunkConfigs}

ChunkingFrame ==
    UNCHANGED <<vault, vectorStore, disk, settings, requirementsOk, isIndexing,
                cancelIndexing, pendingFile, builds, procs, dels, clr, runStart,
                needsIndex, budget, gates, stale, embeds, startup, searches, cosine>>

(* lines 382-388: no chunking *)
SplitWhole ==
    /\ chunking.pc = "call"
    /\ NoChunking(chunking.cfg)
    /\ chunking' = [chunking EXCEPT !.pc = "done",
                                    !.chunks = <<[text |-> chunking.content,
                                                  startOffset |-> 0,
                                                  endOffset |-> Len(chunking.content)]>>]
    /\ ChunkingFrame

(* lines 391-454: the paragraph strategy *)
SplitParagraph ==
    /\ chunking.pc = "call"
    /\ ~NoChunking(chunking.cfg)
    /\ chunking.cfg.chunkingStrategy = "paragraph"
    /\ chunking' = [chunking EXCEPT !.pc = "done",
                                    !.chunks = ParagraphAccumulate(chunking.content,
                                                   Paragraphs(chunking.content), 1,
                                                   chunking.cfg.chunkSize, -1, -1, 0, <<>>)]
    /\ ChunkingFrame

(* lines 457-459: the character strategy starts at i = 0 *)
SplitCharacter ==
    /\ chunking.pc = "call"
    /\ ~NoChunking(chunking.cfg)
    /\ chunking.cfg.chunkingStrategy # "paragraph"
    /\ chunking' = [chunking EXCEPT !.pc = "loop", !.i = 0]
    /\ ChunkingFrame

(* lines 460-469: one iteration of the while loop *)
CharacterStep ==
    /\ chunking.pc = "loop"
    /\ chunking.i < Len(chunking.content)
    /\ Len(chunking.chunks) < MaxChunks
    /\ LET startOffset == chunking.i
           endOffset == Min(chunking.i + chunking.cfg.chunkSize, Len(chunking.content))
       IN chunking' = [chunking EXCEPT
              !.chunks = Append(chunking.chunks,
                                [text |-> StringSlice(chunking.content, startOffset, endOffset),
                                 startOffset |-> startOffset,
                                 endOffset |-> endOffset]),
              !.i = NextStart(chunking.i, chunking.cfg)]
    /\ ChunkingFrame

(* lines 460 and 471: the loop ends and the chunks are returned *)
CharacterReturn ==
    /\ chunking.pc = "loop"
    /\ ~(chunking.i < Len(chunking.content))
    /\ chunking' = [chunking EXCEPT !.pc = "done"]
    /\ ChunkingFrame

NextChunking ==
    \/ SplitWhole
    \/ SplitParagraph
    \/ SplitCharacter
    \/ CharacterStep
    \/ CharacterReturn

SpecChunking == InitChunking /\ [][NextChunking]_vars

----------------------------------------------------------------------------
(* Properties *)

StoreRecords == RecordSet(MapValues(vectorStore))
DiskRecords == PersistedRecords(disk.vectors)

(* C1: a rebuild that ends because it saw the cancellation flag returns with *)
(* the in-memory store equal to the record set that was persisted when the   *)
(* rebuild started.                                                          *)
C1_CancelRestoresPersistedStore ==
    [][\A b \in Builds :
          (builds[b].pc = "reload" /\ builds'[b].pc = "idle")
              => RecordSet(MapValues(vectorStore')) = runStart.persisted]_vars

(* C2: at most one buildVectorIndex run is active at any time, and a call    *)
(* that finds isIndexing true is rejected and changes neither the store, the *)
(* persisted file, isIndexing nor cancelIndexing.                            *)
RejectedCall(b) == isIndexing /\ (BuildCallCached(b) \/ BuildReady(b))

C2_OneRebuildAtATime ==
    /\ [](Cardinality({b \in Builds : BuildActive(builds[b])}) <= 1)
    /\ [][\A b \in Builds :
             RejectedCall(b) =>
                 /\ builds'[b].outcome = "rejected"
                 /\ UNCHANGED <<vectorStore, disk, isIndexing, cancelIndexing>>]_vars

(* a call is rejected while the other runs, after both were suspended in     *)
(* the requirements check at the same time                                   *)
C2_Witness ==
    \E b, c \in Builds :
        /\ b # c
        /\ builds[b].outcome = "rejected" /\ builds[b].overlap
        /\ BuildActive(builds[c]) /\ builds[c].overlap

(* C3: when processFile(d) has run to completion and no other operation has  *)
(* touched d's records meanwhile, the store holds for d exactly one record   *)
(* per chunk of the new content whose embedding succeeded, keyed d#i.        *)
ExpectedEntries(r, path) ==
    {[key |-> Key(path, i),
      value |-> MakeVectorData(path, r.content, r.chunks, i,
                               OllamaEmbedding(r.chunks[i + 1].text))] : i \in r.okIdx}

EntriesOfPath(m, path) == {e \in Range(m) : e.value.path = path}

C3_ReindexReplacesRecords ==
    [][\A p \in Procs :
          (procs[p].pc = "write" /\ procs'[p].pc = "idle" /\ ~procs[p].interfered)
              => EntriesOfPath(vectorStore', vault[procs[p].file].path)
                    = ExpectedEntries(procs[p], vault[procs[p].file].path)]_vars

(* a document indexed with two chunks has been re-indexed with one *)
C3_Witness ==
    \E p \in Procs :
        /\ procs[p].pc = "write" /\ ~procs[p].interfered
        /\ procs[p].hadBefore = 2
        /\ Len(procs[p].chunks) = 1 /\ procs[p].okIdx = {0}
        /\ Cardinality(EntriesOfPath(vectorStore, vault[procs[p].file].path)) = 1

(* C4: when the delete handler of a document has finished, the store holds   *)
(* no record for the document's path and the file has been rewritten with a  *)
(* record set that has no record for it (the path not being in use again).   *)
C4_DeleteRemovesAndPersists ==
    [][\A f \in Files :
          (/\ dels[f].pc = "write" /\ dels'[f].pc = "done"
           /\ \A g \in Files : vault'[g].exists => vault'[g].path # vault[f].path)
              => /\ RecordsOfPath(vectorStore', vault[f].path) = {}
                 /\ disk'.exists
                 /\ \A v \in RecordSet(disk'.vectors) : v.path # vault[f].path]_vars

(* C5: no step of a rebuild that has not completed changes the in-memory     *)
(* store, which keeps its pre-rebuild content.                               *)
C5_LiveStoreKeptDuringRebuild ==
    [][\A b \in Builds :
          (builds'[b] # builds[b] /\ builds'[b].pc \in {"read", "embed", "reload"})
              => vectorStore' = vectorStore]_vars

(* C6: while isIndexing is true no step of processFile changes the vector   *)
(* store or the persisted file.                                              *)
ProcStep(p) ==
    [procs'[p] EXCEPT !.interfered = FALSE] # [procs[p] EXCEPT !.interfered = FALSE]

C6_NoIncrementalUpdateDuringRebuild ==
    [][\A p \in Procs :
          (isIndexing /\ ProcStep(p)) => (vectorStore' = vectorStore /\ disk' = disk)]_vars

(* C7: a modify or rename event on a document is not lost: until a          *)
(* processFile of the document reads its content (or finds the gate not      *)
(* ready), the document is the pending one or a processFile of it is about   *)
(* to read.                                                                  *)
C7_RequestsCoalescedPerDocument ==
    \A f \in Files :
        needsIndex[f] =>
            \/ pendingFile = f
            \/ \E p \in Procs : procs[p].file = f /\ procs[p].pc \in {"req", "read"}

(* C8: a rebuild that was requested to cancel while it was reading or       *)
(* embedding ends as cancelled: when it leaves the loop it reloads the       *)
(* persisted store, it does not go on to persist a new record set.           *)
C8_CancelRequestEndsRunCanceled ==
    [][\A b \in Builds :
          (/\ cancelIndexing
           /\ builds[b].pc \in {"read", "embed"}
           /\ builds'[b].pc \notin {"read", "embed", "idle"})
              => builds'[b].pc = "reload"]_vars

(* C9: in every state in which no rebuild is running, isIndexing and         *)
(* cancelIndexing are false.                                                 *)
C9_FlagsResetWhenIdle ==
    (\A b \in Builds : ~BuildActive(builds[b])) => (~isIndexing /\ ~cancelIndexing)

(* C10: whenever no handler, re-index or rebuild is in flight or pending,    *)
(* the persisted record set equals the in-memory store.                      *)
Quiescent ==
    /\ \A b \in Builds : builds[b].pc = "idle"
    /\ \A p \in Procs : procs[p].pc = "idle"
    /\ \A f \in Files : dels[f].pc # "write"
    /\ clr = "idle"
    /\ pendingFile = NoFile

C10_PersistedEqualsStoreWhenQuiescent ==
    Quiescent => DiskRecords = StoreRecords

(* C11: when the 'rename' handler has run for a document moved from oldPath  *)
(* to newPath, the store holds no record whose path is oldPath and the        *)
(* Debouncer holds the renamed file, whose path is newPath, for a re-index    *)
C11_RenameDropsOldPathAndSchedules ==
    [][\A f \in Files :
          vault'[f].path # vault[f].path
              => /\ RecordsOfPath(vectorStore', vault[f].path) = {}
                 /\ pendingFile' = f
                 /\ vault'[pendingFile'].path # vault[f].path]_vars

(* f1, indexed under a.md, has been renamed to c.md *)
C11_Witness ==
    /\ vault["f1"].path = "c.md"
    /\ pendingFile = "f1"
    /\ RecordsOfPath(vectorStore, "a.md") = {}
    /\ RecordsOfPath(vectorStore, "b.md") # {}

(* an invocation of ensureRequirements that is inside checkRequirements *)
LiveGate(r) == r.pc \in {"version", "tags", "json"}

GateCalled(g) == gates[g].pc = "idle" /\ gates'[g].pc # "idle"

(* C12: a call of ensureRequirements with the cache at true returns true and *)
(* fetches nothing; with the cache at false and showNotice false it returns   *)
(* false and fetches nothing; with the cache at false and showNotice true it  *)
(* enters checkRequirements (the liveness fetch is issued), and the result of *)
(* a live check is stored in the cache when the call returns                  *)
C12_CachedAnswerWithoutNetworkCall ==
    [][\A g \in GateCalls :
          /\ (GateCalled(g) /\ requirementsOk = "true")
                 => /\ gates'[g].pc = "done"
                    /\ gates'[g].result = "true"
                    /\ gates'[g].fetched = 0
                    /\ requirementsOk' = "true"
          /\ (GateCalled(g) /\ requirementsOk = "false" /\ ~gates'[g].showNotice)
                 => /\ gates'[g].pc = "done"
                    /\ gates'[g].result = "false"
                    /\ gates'[g].fetched = 0
                    /\ requirementsOk' = "false"
          /\ (GateCalled(g) /\ requirementsOk = "false" /\ gates'[g].showNotice)
                 => /\ LiveGate(gates'[g])
                    /\ gates'[g].fetched = 1
          /\ (LiveGate(gates[g]) /\ gates'[g].pc = "done")
                 => requirementsOk' = gates'[g].result]_vars

(* a silent caller got the cached false, then a caller that shows notices   *)
(* ran a live check whose result, true, is in the cache                       *)
C12_Witness ==
    /\ gates["g1"].pc = "done" /\ ~gates["g1"].showNotice
    /\ gates["g1"].result = "false" /\ gates["g1"].fetched = 0
    /\ gates["g2"].pc = "done" /\ gates["g2"].showNotice /\ gates["g2"].cached = "false"
    /\ gates["g2"].fetched = 2 /\ gates["g2"].result = "true"
    /\ requirementsOk = "true"

(* C13: an edit of the Ollama URL or of the model name leaves the cache at   *)
(* null, and the first call of ensureRequirements after the edit enters       *)
(* checkRequirements instead of returning a cached value                      *)
C13_LiveCheckAfterSettingChange ==
    [][/\ (\/ settings'.ollamaURL # settings.ollamaURL
           \/ settings'.modelName # settings.modelName) => requirementsOk' = "null"
       /\ \A g \in GateCalls : (GateCalled(g) /\ stale) => LiveGate(gates'[g])]_vars

(* C14: a live check returns ready exactly when the liveness call succeeded, *)
(* the model-listing call succeeded, and the model name the settings hold is  *)
(* among the listed names; a call that throws, or a body that does not parse, *)
(* gives not ready                                                            *)
C14_ReadyIffServerUpAndModelListed ==
    [][\A g \in GateCalls :
          (LiveGate(gates[g]) /\ gates'[g].pc = "done")
              => /\ gates'[g].result = "true"
                      <=> /\ gates'[g].liveness = "ok"
                          /\ gates'[g].listing = "ok"
                          /\ gates'[g].body.parses
                          /\ gates'[g].body.hasModels
                          /\ settings.modelName \in gates'[g].body.names
                 /\ (\/ gates'[g].liveness = "threw"
                     \/ gates'[g].listing = "threw"
                     \/ (gates'[g].listing = "ok" /\ ~gates'[g].body.parses))
                        => gates'[g].result = "false"]_vars

(* one live check found the model; another, answered with a list that holds *)
(* the name without its tag, did not                                          *)
C14_Witness ==
    /\ gates["g1"].pc = "done" /\ gates["g1"].result = "true" /\ gates["g1"].fetched = 2
    /\ gates["g2"].pc = "done" /\ gates["g2"].result = "false"
    /\ gates["g2"].liveness = "ok" /\ gates["g2"].listing = "ok"
    /\ gates["g2"].body.parses /\ gates["g2"].body.names = {"nomic-embed-text"}
    /\ settings.modelName = "nomic-embed-text:latest"

(* an element of a parsed array that is an object with a path *)
IsRecordObject(v) == HasProperty(v, "path")

(* the backing files of C15: absent with no legacy vectors in the settings, *)
(* unreadable, not JSON, or JSON that is not a list of record objects         *)
NoUsableIndex(d, st) ==
    IF d.exists
    THEN \/ ~d.readable
         \/ ~d.parses
         \/ ~d.isArray
         \/ \E j \in 1..Len(d.vectors) : ~IsRecordObject(d.vectors[j])
    ELSE Len(st.vectors) = 0

(* C15: whatever the backing file holds that is not a list of record        *)
(* objects, loadVectorStore returns without throwing and the store is empty   *)
C15_LoadOfUnusableFileGivesEmptyStore ==
    (startup \in {"loaded", "threw"} /\ NoUsableIndex(disk, settings))
        => (startup = "loaded" /\ Len(vectorStore) = 0)

(* C16: every entry of the store has the key made of its own record's path  *)
(* and chunkIndex, and no two entries have the same key; after a load with    *)
(* the positional fallback, after insertions and after removals               *)
C16_EntriesKeyedByOwnRecord ==
    /\ \A j \in 1..Len(vectorStore) :
          /\ HasProperty(vectorStore[j].value, "chunkIndex")
          /\ vectorStore[j].key
                = Key(PathOf(vectorStore[j].value), vectorStore[j].value.chunkIndex)
    /\ \A j, k \in 1..Len(vectorStore) :
          vectorStore[j].key = vectorStore[k].key => j = k

(* the store was loaded from records without chunkIndex (b.md's record got  *)
(* its position, 2), and a processFile of a.md has removed the old records    *)
(* and set new ones                                                           *)
C16_Witness ==
    /\ MapHas(vectorStore, Key("b.md", 2))
    /\ procs["p1"].pc = "write"
    /\ procs["p1"].hadBefore > 0
    /\ procs["p1"].okIdx # {}
    /\ MapHas(vectorStore, Key("a.md", 0))

(* C17: when clearVectorStore returns (the step that ends the "Clear index" *)
(* handler's await on it), the store is empty and the backing file does not   *)
(* exist                                                                      *)
C17_ClearLeavesNoStoreAndNoFile ==
    [][(clr = "remove" /\ clr' = "idle")
          => (Len(vectorStore') = 0 /\ ~disk'.exists)]_vars

(* the answers for which getEmbedding is to return the empty vector: the    *)
(* service is unreachable, the status is not a success, or the embedding      *)
(* field is missing or is not an array of numbers                             *)
NoValidEmbedding(answer) ==
    \/ ~answer.reached
    \/ ~answer.ok
    \/ ~answer.parses
    \/ ~answer.isObject
    \/ answer.field # "array"
    \/ \E i \in 1..Len(answer.embedding) : ~IsNumber(answer.embedding[i])

(* C19: getEmbedding never throws; it returns the empty vector for every    *)
(* answer without a valid embedding, and the answer's embedding otherwise     *)
C19_GetEmbeddingEmptyOnEveryFailure ==
    \A e \in EmbedCalls :
        embeds[e].pc = "done"
            => /\ ~embeds[e].returned.threw
               /\ embeds[e].returned.vector
                     = IF NoValidEmbedding(embeds[e].answer) THEN <<>>
                       ELSE embeds[e].answer.embedding

(* the step of buildVectorIndex that takes the answer for a chunk *)
BuildEmbedStep(b) == builds[b].pc = "embed" /\ builds'[b] # builds[b]

(* the step of processFile that takes the answer for a chunk *)
ProcEmbedStep(p) == procs[p].pc = "embed" /\ procs'[p].i = procs[p].i + 1

(* C18: no step puts a record with an empty embedding into the store; the   *)
(* step that takes the answer for a chunk either sets that chunk's record or  *)
(* leaves the store as it is, and in both cases the indexer goes on to the    *)
(* next chunk, to the next document or to saveVectorStore with the store as   *)
(* payload; the save writes that payload                                      *)
C18_EmptyEmbeddingSkipsChunkOnly ==
    [][/\ \A j \in 1..Len(vectorStore') :
             vectorStore'[j] \notin Range(vectorStore)
                 => Len(vectorStore'[j].value.embedding) > 0
       /\ \A p \in Procs :
             ProcEmbedStep(p)
                 => /\ procs'[p].okIdx = procs[p].okIdx => vectorStore' = vectorStore
                    /\ procs'[p].pc = IF procs'[p].i < Len(procs[p].chunks) THEN "embed"
                                      ELSE "write"
                    /\ procs'[p].pc = "write"
                          => procs'[p].payload = MapValues(vectorStore')
       /\ \A p \in Procs :
             (procs[p].pc = "write" /\ procs'[p].pc = "idle")
                 => disk' = DiskWith(procs[p].payload)
       /\ \A b \in Builds :
             BuildEmbedStep(b)
                 => /\ builds'[b].pc \in {"embed", "read", "write", "reload"}
                    /\ builds'[b].pc = "reload" => cancelIndexing
                    /\ builds'[b].pc = "write"
                          => builds'[b].payload = MapValues(vectorStore')
       /\ \A b \in Builds :
             (builds[b].pc = "write" /\ builds'[b].pc # "write")
                 => disk' = DiskWith(builds[b].payload)]_vars

(* a rebuild has completed and persisted an index in which chunk 0 of a.md, *)
(* whose embedding came back empty, has no record, and a processFile of the    *)
(* edited b.md that skipped chunk 0 and set chunk 1 is about to save           *)
C18_Witness ==
    /\ builds["b1"].outcome = "completed"
    /\ disk.exists
    /\ \E j \in 1..Len(disk.vectors) : disk.vectors[j].path = "b.md"
    /\ \E j \in 1..Len(disk.vectors) : disk.vectors[j].path = "a.md"
    /\ \A j \in 1..Len(disk.vectors) :
          disk.vectors[j].path = "a.md" => disk.vectors[j].chunkIndex = 1
    /\ procs["p1"].pc = "write"
    /\ procs["p1"].file = "f2"
    /\ Len(procs["p1"].chunks) = 2
    /\ procs["p1"].okIdx = {1}

(* the step of buildVectorIndex in which vault.read of the current document *)
(* fails                                                                      *)
BuildReadFailure(b) ==
    /\ builds[b].pc = "read"
    /\ ~vault[builds[b].files[builds[b].fi]].exists
    /\ builds'[b] # builds[b]

(* C20: when the read of one document fails during a rebuild, the run goes  *)
(* on with the next document or, after the last one, with the save of the     *)
(* records it has set (or with the reload when it was canceled); it is not    *)
(* ended by the failure                                                       *)
C20_ReadFailureSkipsOneDocument ==
    [][\A b \in Builds :
          BuildReadFailure(b)
              => /\ builds'[b].pc \in {"read", "write", "reload"}
                 /\ builds'[b].pc = "reload" => cancelIndexing
                 /\ builds'[b].outcome # "failed"]_vars

(* C21: the handling of a file-change event raises no notice: a call of     *)
(* getEmbedding made by processFile returns without having raised one       *)
C21_BackgroundEmbeddingRaisesNoNotice ==
    \A e \in EmbedCalls :
        (embeds[e].pc = "done" /\ embeds[e].caller = "processFile")
            => embeds[e].returned.notice = "none"

(* a search that reached the scan of the store *)
Scanned(s) == searches[s].pc = "done" /\ searches[s].message \in {"results", "noResults"}

(* C22: the results of performSearch are sorted by non-increasing score,    *)
(* every result is a scored record of the store whose score is at least      *)
(* searchThreshold, and there are at most maxResults results                  *)
C22_ResultsSortedFilteredAndCut ==
    \A s \in Searches :
        Scanned(s) =>
            LET results == searches[s].results
            IN /\ \A i, j \in 1..Len(results) :
                      i < j => ScoreGeq(results[i].similarity, results[j].similarity)
               /\ \A i \in 1..Len(results) :
                      /\ results[i] \in Range(searches[s].scored)
                      /\ results[i].similarity
                            = cosineSimilarity(searches[s].queryEmbedding,
                                               results[i].vectorData.embedding)
                      /\ ScoreGeq(results[i].similarity,
                                  ThresholdScore(settings.searchThreshold))
               /\ Len(results) <= settings.maxResults

(* two records match, the better one is the later one in the store *)
C22_Witness ==
    \E s \in Searches :
        /\ Scanned(s)
        /\ Len(searches[s].results) = 2
        /\ searches[s].results[1].vectorData = searches[s].scored[2].vectorData
        /\ ~ScoreGeq(searches[s].results[2].similarity, searches[s].results[1].similarity)
        /\ settings.searchThreshold > 0

(* a search cut to maxResults: more records matched than are shown *)
C22_CutReached ==
    \E s \in Searches :
        /\ Scanned(s)
        /\ Len(Pushed(searches[s].scored, settings.searchThreshold)) > settings.maxResults
        /\ Len(searches[s].results) = settings.maxResults

(* C23: a search whose query has fewer than 3 characters, or that finds the *)
(* store empty, calls neither ensureRequirements nor getEmbedding and        *)
(* reports 'Type at least 3 characters' or 'Vector index is empty'            *)
C23_NoCallsForShortQueryOrEmptyStore ==
    \A s \in Searches :
        searches[s].pc # "idle" =>
            /\ Len(searches[s].query) < 3
                  => /\ searches[s].pc = "done"
                     /\ searches[s].message = "tooShort"
                     /\ searches[s].checks = 0
                     /\ searches[s].embedCalls = 0
            /\ (Len(searches[s].query) >= 3 /\ searches[s].sizeAtCall = 0)
                  => /\ searches[s].pc = "done"
                     /\ searches[s].message = "indexEmpty"
                     /\ searches[s].checks = 0
                     /\ searches[s].embedCalls = 0

(* a search with a query of two characters on a store that holds records *)
C23_Witness ==
    \E s \in Searches :
        /\ searches[s].pc = "done"
        /\ Len(searches[s].query) = 2
        /\ searches[s].sizeAtCall > 0
        /\ searches[s].message = "tooShort"

(* a search with a query of three characters on the empty store *)
C23_EmptyStoreReached ==
    \E s \in Searches :
        /\ searches[s].pc = "done"
        /\ Len(searches[s].query) = 3
        /\ searches[s].message = "indexEmpty"
        /\ Len(vectorStore) = 0

(* C24: cosineSimilarity returns 0 and does not throw when a vector is      *)
(* empty, when the lengths differ and when a magnitude is zero; with a        *)
(* positive threshold a pair of vectors of different lengths is not a match   *)
C24_ZeroForEmptyMismatchedOrZeroVectors ==
    cosine.pc = "done" =>
        /\ (\/ Len(cosine.vec1) = 0
            \/ Len(cosine.vec2) = 0
            \/ Len(cosine.vec1) # Len(cosine.vec2)
            \/ \A i \in 1..Len(cosine.vec1) : cosine.vec1[i] = 0
            \/ \A i \in 1..Len(cosine.vec2) : cosine.vec2[i] = 0)
              => cosine.similarity = ZeroScore
        /\ (Len(cosine.vec1) # Len(cosine.vec2) /\ cosine.searchThreshold > 0)
              => ~cosine.matched

(* vectors of lengths 2 and 1 compared under the threshold 0.5 *)
C24_Witness ==
    /\ cosine.pc = "done"
    /\ Len(cosine.vec1) = 2
    /\ Len(cosine.vec2) = 1
    /\ cosine.searchThreshold = 10
    /\ ~cosine.matched

(* a zero vector compared with a vector that holds a non-number *)
C24_ZeroMagnitudeReached ==
    /\ cosine.pc = "done"
    /\ cosine.vec1 = <<0, 0>>
    /\ cosine.vec2 = <<NotANumber, 1>>
    /\ cosine.similarity = ZeroScore

(* C25: the embeddings of all records of the store have the same length *)
C25_OneDimensionInStore ==
    \A j, k \in 1..Len(vectorStore) :
        Len(vectorStore[j].value.embedding) = Len(vectorStore[k].value.embedding)

(* the entries of a store whose record belongs to another path than d *)
EntriesOfOthers(store, d) == {entry \in Range(store) : entry.value.path # d}

(* a step of processFile p that is past the requirements check *)
ProcStoreStep(p) ==
    /\ procs[p].pc \in {"read", "embed", "write"}
    /\ (procs'[p].pc # procs[p].pc \/ procs'[p].i # procs[p].i)

(* C26: a step of processFile on a document, the 'delete' handler of a      *)
(* document and the removal of the 'rename' handler leave every entry of the  *)
(* store whose record has another path than the document's as it is           *)
C26_IncrementalTouchesOnlyOwnRecords ==
    [][/\ \A p \in Procs :
             ProcStoreStep(p)
                 => EntriesOfOthers(vectorStore', vault[procs[p].file].path)
                       = EntriesOfOthers(vectorStore, vault[procs[p].file].path)
       /\ \A f \in Files :
             (vault'[f].exists # vault[f].exists \/ vault'[f].path # vault[f].path)
                 => EntriesOfOthers(vectorStore', vault[f].path)
                       = EntriesOfOthers(vectorStore, vault[f].path)]_vars

(* processFile has replaced the records of b.md while a.md has records *)
C26_Witness ==
    \E p \in Procs :
        /\ procs[p].pc = "write"
        /\ procs[p].file = "f2"
        /\ procs[p].okIdx # {}
        /\ \E j \in 1..Len(vectorStore) : vectorStore[j].value.path = "a.md"
        /\ \E j \in 1..Len(vectorStore) : vectorStore[j].value.path = vault["f2"].path

(* the step in which processFile p, the 'delete' handler of f or rebuild b  *)
(* returns from saveVectorStore and sets the index metadata                   *)
ProcSaved(p) == procs[p].pc = "write" /\ procs'[p].pc # "write"
DeleteSaved(f) == dels[f].pc = "write" /\ dels'[f].pc # "write"
BuildSaved(b) == builds[b].pc = "write" /\ builds'[b].pc # "write"

(* C27: when a rebuild, a re-index of one document or a 'delete' handler    *)
(* has saved the store, lastIndexCount is the number of records it wrote      *)
C27_LastIndexCountIsPersistedCount ==
    [][(\/ \E p \in Procs : ProcSaved(p)
        \/ \E f \in Files : DeleteSaved(f)
        \/ \E b \in Builds : BuildSaved(b))
          => settings'.lastIndexCount = Len(disk'.vectors)]_vars

(* C28: with chunkSize 0 splitIntoChunks returns one chunk, the whole text  *)
(* from offset 0 to its length, for every text and either strategy            *)
C28_ChunkSizeZeroGivesWholeText ==
    (chunking.pc \notin {"idle", "call"} /\ chunking.cfg.chunkSize = 0)
        => /\ chunking.pc = "done"
           /\ chunking.chunks = <<[text |-> chunking.content,
                                   startOffset |-> 0,
                                   endOffset |-> Len(chunking.content)]>>

(* a text of two paragraphs split with chunkSize 0 under the paragraph strategy *)
C28_Witness ==
    /\ chunking.pc = "done"
    /\ chunking.cfg.chunkSize = 0
    /\ chunking.cfg.chunkingStrategy = "paragraph"
    /\ chunking.content = <<"a", "\n", "\n", "b">>
    /\ Len(chunking.chunks) = 1

(* the empty text split with chunkSize 0 *)
C28_EmptyTextReached ==
    /\ chunking.pc = "done"
    /\ chunking.cfg.chunkSize = 0
    /\ chunking.content = <<>>
    /\ Len(chunking.chunks) = 1

(* the overlap a configuration declares: chunkOverlap under the character   *)
(* strategy, none under the paragraph strategy                                *)
DeclaredOverlap(cfg) == IF cfg.chunkingStrategy = "character" THEN cfg.chunkOverlap ELSE 0

(* the chunk texts concatenated, every chunk after the first without its    *)
(* first `overlap` characters                                                 *)
RECURSIVE Rebuilt(_, _, _)
Rebuilt(chunks, k, overlap) ==
    IF k > Len(chunks)
    THEN <<>>
    ELSE LET text == chunks[k].text
             dropped == IF k = 1 THEN 0 ELSE Min(overlap, Len(text))
         IN SubSeq(text, dropped + 1, Len(text)) \o Rebuilt(chunks, k + 1, overlap)

(* C29: with chunkSize > 0 the chunk texts, concatenated without the        *)
(* declared overlap, are the text that was split; the start offsets do not    *)
(* decrease and every offset is between 0 and the length of the text          *)
C29_ChunksReconstructText ==
    (chunking.pc = "done" /\ chunking.cfg.chunkSize > 0)
        => /\ Rebuilt(chunking.chunks, 1, DeclaredOverlap(chunking.cfg)) = chunking.content
           /\ \A k \in 1..(Len(chunking.chunks) - 1) :
                 chunking.chunks[k].startOffset <= chunking.chunks[k + 1].startOffset
           /\ \A k \in 1..Len(chunking.chunks) :
                 /\ chunking.chunks[k].startOffset \in 0..Len(chunking.content)
                 /\ chunking.chunks[k].endOffset \in 0..Len(chunking.content)

(* the part of C29 that holds: under the character strategy with            *)
(* chunkOverlap < chunkSize the text is reconstructed                         *)
CharacterChunksReconstructText ==
    (/\ chunking.pc = "done"
     /\ chunking.cfg.chunkSize > chunking.cfg.chunkOverlap
     /\ chunking.cfg.chunkingStrategy = "character")
        => Rebuilt(chunking.chunks, 1, DeclaredOverlap(chunking.cfg)) = chunking.content

(* C30: every iteration of the character loop moves i forward, by           *)
(* chunkSize - chunkOverlap or, when that is not positive, by chunkSize, so  *)
(* that the loop ends                                                         *)
C30_CharacterLoopAdvances ==
    [][(chunking.pc = "loop" /\ chunking'.pc = "loop")
          => /\ chunking'.i > chunking.i
             /\ chunking'.i = chunking.i
                   + (IF chunking.cfg.chunkSize - chunking.cfg.chunkOverlap > 0
                      THEN chunking.cfg.chunkSize - chunking.cfg.chunkOverlap
                      ELSE chunking.cfg.chunkSize)]_vars

(* the loop has pushed more chunks than the text has characters *)
CharacterLoopRunsOn ==
    /\ chunking.pc = "loop"
    /\ Len(chunking.chunks) > Len(chunking.content)

(* a finished call under the character strategy with 0 <= chunkOverlap < chunkSize *)
CharacterCallDone ==
    /\ chunking.pc = "done"
    /\ chunking.cfg.chunkingStrategy = "character"
    /\ chunking.cfg.chunkOverlap < chunking.cfg.chunkSize

(* C31: under the character strategy with 0 <= chunkOverlap < chunkSize     *)
(* there is one chunk for every multiple of chunkSize - chunkOverlap below   *)
(* the length of the text; it starts there and ends chunkSize characters     *)
(* later or at the end of the text, the chunks cover the text, and a chunk   *)
(* of chunkSize characters that has a successor shares exactly its last      *)
(* chunkOverlap characters with it                                           *)
C31_CharacterChunksAtMultiplesOfStep ==
    CharacterCallDone =>
        LET chunks == chunking.chunks
            content == chunking.content
            chunkSize == chunking.cfg.chunkSize
            chunkOverlap == chunking.cfg.chunkOverlap
            step == chunkSize - chunkOverlap
        IN /\ Len(chunks) = Cardinality({k \in 0..Len(content) : k * step < Len(content)})
           /\ \A k \in 1..Len(chunks) :
                 /\ chunks[k].startOffset = (k - 1) * step
                 /\ chunks[k].endOffset = Min(chunks[k].startOffset + chunkSize, Len(content))
                 /\ chunks[k].text
                       = SubSeq(content, chunks[k].startOffset + 1, chunks[k].endOffset)
                 /\ Len(chunks[k].text) <= chunkSize
           /\ \A position \in 1..Len(content) :
                 \E k \in 1..Len(chunks) :
                     chunks[k].startOffset < position /\ position <= chunks[k].endOffset
           /\ \A k \in 1..(Len(chunks) - 1) :
                 Len(chunks[k].text) = chunkSize
                     => /\ chunks[k].endOffset - chunks[k + 1].startOffset = chunkOverlap
                        /\ SubSeq(chunks[k].text, chunkSize - chunkOverlap + 1, chunkSize)
                              = SubSeq(chunks[k + 1].text, 1, chunkOverlap)

(* four characters split with chunkSize 3 and chunkOverlap 1: starts 0 and 2 *)
C31_Witness ==
    /\ CharacterCallDone
    /\ chunking.content = <<"a", "b", "c", "d">>
    /\ chunking.cfg.chunkSize = 3
    /\ chunking.cfg.chunkOverlap = 1
    /\ Len(chunking.chunks) = 2
    /\ chunking.chunks[2].text = <<"c", "d">>

(* The paragraphs of a text, told from its lines: a paragraph is a longest  *)
(* run of lines that are not blank; it starts at the first character of its  *)
(* first line and ends behind the last character of its last line.           *)
RECURSIVE LineStart(_, _)
LineStart(lines, k) == IF k = 1 THEN 0 ELSE LineStart(lines, k - 1) + Len(lines[k - 1]) + 1

ParagraphSpans(content) ==
    LET lines == SplitLines(content)
        blank(k) == k < 1 \/ k > Len(lines)
                        \/ \A i \in 1..Len(lines[k]) : lines[k][i] \in {" ", "\t"}
    IN {[start |-> LineStart(lines, a), end |-> LineStart(lines, b) + Len(lines[b])] :
           <<a, b>> \in {<<a, b>> \in (1..Len(lines)) \X (1..Len(lines)) :
                            /\ a <= b
                            /\ \A k \in a..b : ~blank(k)
                            /\ blank(a - 1)
                            /\ blank(b + 1)}}

(* a finished call under the paragraph strategy *)
ParagraphCallDone ==
    /\ chunking.pc = "done"
    /\ chunking.cfg.chunkSize > 0
    /\ chunking.cfg.chunkingStrategy = "paragraph"

(* the chunk holds the paragraph *)
Holds(chunk, paragraph) ==
    chunk.startOffset <= paragraph.start /\ paragraph.end <= chunk.endOffset

(* the chunk ends where the paragraph ends, behind its last character or    *)
(* behind the newline that ends its last line                                *)
EndsWith(chunk, paragraph) == chunk.endOffset \in {paragraph.end, paragraph.end + 1}

(* C32: under the paragraph strategy every chunk starts where a paragraph   *)
(* starts and ends where a paragraph ends, every paragraph lies in exactly   *)
(* one chunk, and a paragraph longer than chunkSize is a chunk of its own     *)
C32_ParagraphsAreNeverSplit ==
    ParagraphCallDone =>
        LET chunks == chunking.chunks
            paragraphs == ParagraphSpans(chunking.content)
        IN /\ \A k \in 1..Len(chunks) :
                 /\ \E paragraph \in paragraphs : chunks[k].startOffset = paragraph.start
                 /\ \E paragraph \in paragraphs : EndsWith(chunks[k], paragraph)
                 /\ chunks[k].text = SubSeq(chunking.content, chunks[k].startOffset + 1,
                                            chunks[k].endOffset)
           /\ \A paragraph \in paragraphs :
                 /\ Cardinality({k \in 1..Len(chunks) : Holds(chunks[k], paragraph)}) = 1
                 /\ paragraph.end - paragraph.start > chunking.cfg.chunkSize
                       => \E k \in 1..Len(chunks) :
                             /\ chunks[k].startOffset = paragraph.start
                             /\ EndsWith(chunks[k], paragraph)

(* a paragraph of two lines, longer than chunkSize 2, is one chunk and the  *)
(* paragraph behind it another                                               *)
C32_Witness ==
    /\ ParagraphCallDone
    /\ chunking.content = <<"a", "\n", "b", "\n", " ", "\n", "c">>
    /\ chunking.cfg.chunkSize = 2
    /\ Len(chunking.chunks) = 2
    /\ chunking.chunks[1].text = <<"a", "\n", "b", "\n">>

(* a paragraph as the chunker measures it: with the newline that ends its   *)
(* last line                                                                 *)
MeasuredEnd(paragraph, content) ==
    IF paragraph.end < Len(content) THEN paragraph.end + 1 ELSE paragraph.end

(* q is the paragraph behind p *)
NextParagraph(p, q, paragraphs) ==
    /\ p.start < q.start
    /\ \A r \in paragraphs : ~(p.start < r.start /\ r.start < q.start)

(* C33: under the paragraph strategy the paragraph behind the last one of a *)
(* chunk is in the same chunk exactly when the length of the chunk, the gap   *)
(* and the length of the paragraph together are at most chunkSize; a chunk of *)
(* two or more paragraphs has at most chunkSize characters                    *)
C33_ParagraphJoinsWithinChunkSize ==
    ParagraphCallDone =>
        LET chunks == chunking.chunks
            paragraphs == ParagraphSpans(chunking.content)
        IN /\ \A p, q \in paragraphs :
                 NextParagraph(p, q, paragraphs)
                     => \A k \in 1..Len(chunks) :
                           Holds(chunks[k], p)
                               => (Holds(chunks[k], q)
                                      <=> MeasuredEnd(q, chunking.content)
                                             - chunks[k].startOffset
                                          <= chunking.cfg.chunkSize)
           /\ \A k \in 1..Len(chunks) :
                 Cardinality({p \in paragraphs : Holds(chunks[k], p)}) >= 2
                     => Len(chunks[k].text) <= chunking.cfg.chunkSize

(* with chunkSize 4 the second paragraph does not fit behind the first, and *)
(* the third fits behind the second                                          *)
C33_Witness ==
    /\ ParagraphCallDone
    /\ chunking.content = <<"a", "\n", "\n", "b", "\n", "\n", "c">>
    /\ chunking.cfg.chunkSize = 4
    /\ Len(chunking.chunks) = 2
    /\ chunking.chunks[1].text = <<"a", "\n">>
    /\ chunking.chunks[2].text = <<"b", "\n", "\n", "c">>

(* the 0-based line of the character at `offset` of `content` *)
LineOfOffset(content, offset) == Newlines(Slice(content, 0, offset))

(* the record has the line of the first and of the last character of the chunk *)
HasLineSpanOf(vectorData, content, chunk) ==
    /\ vectorData.startLine = LineOfOffset(content, chunk.startOffset)
    /\ vectorData.endLine = LineOfOffset(content, chunk.endOffset - 1)

(* the record the store holds under the key, if it holds one *)
RecordsUnder(store, key) == {store[j].value : j \in {i \in 1..Len(store) : store[i].key = key}}

(* C34: the record an indexer sets for a chunk has as startLine the 0-based *)
(* line of the first character of the chunk and as endLine the 0-based line  *)
(* of its last character                                                     *)
C34_LineSpanOfIndexedChunk ==
    [][/\ \A p \in Procs :
             (ProcEmbedStep(p) /\ vectorStore' # vectorStore)
                 => LET r == procs[p]
                        key == Key(normalizePath(vault[r.file].path), r.i)
                    IN \A vectorData \in RecordsUnder(vectorStore', key) :
                          HasLineSpanOf(vectorData, r.content, r.chunks[r.i + 1])
       /\ \A b \in Builds :
             (BuildEmbedStep(b) /\ vectorStore' # vectorStore)
                 => LET r == builds[b]
                        key == Key(normalizePath(vault[r.files[r.fi]].path), r.i)
                    IN \A vectorData \in RecordsUnder(vectorStore', key) :
                          HasLineSpanOf(vectorData, r.content, r.chunks[r.i + 1])]_vars

(* the records the indexer makes of the document's present content *)
RecordsOfContent(path, content) ==
    LET chunks == splitIntoChunks(content, settings)
    IN {MakeVectorData(path, content, chunks, i, OllamaEmbedding(chunks[i + 1].text)) :
           i \in 0..(Len(chunks) - 1)}

(* processFile p returns, no processFile of its document is left running    *)
(* and the document has not changed since it was last read                   *)
LastRunReturns(p) ==
    /\ procs[p].pc = "write" /\ procs'[p].pc = "idle"
    /\ procs[p].interfered
    /\ \A q \in Procs \ {p} : procs[q].pc = "idle" \/ procs[q].file # procs[p].file
    /\ vault'[procs[p].file].exists
    /\ ~needsIndex'[procs[p].file]

(* C35: when the last of the overlapping processFile runs of a document has *)
(* returned, every record the store holds for the document is a record of the *)
(* content that was read last: no record of the earlier content and no chunk  *)
(* index beyond the chunk count of the later content is left                  *)
C35_OverlappingRunsLeaveLaterContent ==
    [][\A p \in Procs :
          LastRunReturns(p)
              => RecordsOfPath(vectorStore', vault'[procs[p].file].path)
                    \subseteq RecordsOfContent(vault'[procs[p].file].path,
                                               vault'[procs[p].file].content)]_vars

(* the 'delete' handler of f has run and no document has the path now *)
DeletedForGood(f) ==
    /\ dels[f].pc = "done"
    /\ ~vault[f].exists
    /\ \A g \in Files : vault[g].exists => vault[g].path # vault[f].path

(* C36: at a quiescent point after the 'delete' handler of a document has   *)
(* run, neither the store nor the persisted file holds a record of the        *)
(* document's path (no document having taken the path since); a processFile   *)
(* of the document that was suspended in an embedding call puts none back     *)
C36_DeletedDocumentStaysOut ==
    Quiescent =>
        \A f \in Files :
            DeletedForGood(f)
                => /\ RecordsOfPath(vectorStore, vault[f].path) = {}
                   /\ \A v \in DiskRecords : v.path # vault[f].path

(* the step in which the live check of call g returns and line 364 stores   *)
(* its result                                                                *)
CheckReturns(g) ==
    /\ gates[g].pc \in {"version", "tags", "json"}
    /\ gates'[g].pc = "done"

(* C37: a live check that returns after the Ollama URL or the model name    *)
(* has been changed under it (no call having been made since the change)      *)
(* leaves the cache at null instead of storing its result                     *)
C37_InFlightCheckDoesNotFillCache ==
    [][\A g \in GateCalls : (CheckReturns(g) /\ stale) => requirementsOk' = "null"]_vars

(* a rebuild starts: line 536 *)
RebuildStarts == ~isIndexing /\ isIndexing'

(* a rebuild leaves its loop as cancelled: line 553 or 562 *)
RebuildSeesCancel(b) == builds[b].pc \in {"read", "embed"} /\ builds'[b].pc = "reload"

(* C38: the cancellation flag is raised only while a rebuild is running; a  *)
(* rebuild starts with the flag down, whatever was requested during the run   *)
(* before it, and it ends as cancelled only with the flag raised, that is on  *)
(* a request made during itself                                               *)
C38_CancelOnlyTheRunningRebuild ==
    [][/\ (~cancelIndexing /\ cancelIndexing')
              => (isIndexing /\ \E b \in Builds : BuildActive(builds[b]))
       /\ RebuildStarts => ~cancelIndexing'
       /\ \A b \in Builds : RebuildSeesCancel(b) => cancelIndexing]_vars

(* a rebuild has ended as cancelled and the rebuild after it is running with *)
(* the flag down                                                              *)
C38_Witness ==
    \E b, c \in Builds :
        /\ builds[b].pc = "idle" /\ builds[b].outcome = "canceled"
        /\ builds[c].pc = "embed"
        /\ isIndexing /\ ~cancelIndexing

----------------------------------------------------------------------------
(* The rebuild with splitIntoChunks followed iteration by iteration, for    *)
(* every chunking configuration of the sliders (lines 885 and 909).  The    *)
(* chunker runs synchronously: between the return of vault.read and the     *)
(* return of splitIntoChunks no handler runs.  A character loop that has    *)
(* pushed MaxChunks chunks with i still inside the text is followed no       *)
(* further: the documents of the vault have fewer characters than that, so a *)
(* loop that advances has returned before.                                   *)

ChunkingOf(s) ==
    [chunkSize |-> s.chunkSize, chunkOverlap |-> s.chunkOverlap,
     chunkingStrategy |-> s.chunkingStrategy]

InitRebuildReturns ==
    /\ vault = InitialVault
    /\ disk = NoDisk
    /\ vectorStore = <<>>
    /\ settings \in {[ScaledSettings EXCEPT !.chunkSize = cfg.chunkSize,
                                            !.chunkOverlap = cfg.chunkOverlap,
                                            !.chunkingStrategy = cfg.chunkingStrategy] :
                        cfg \in ChunkConfigs}
    /\ requirementsOk = "null"
    /\ isIndexing = FALSE
    /\ cancelIndexing = FALSE
    /\ pendingFile = NoFile
    /\ builds = [b \in Builds |-> IdleBuild("none")]
    /\ procs = [p \in Procs |-> IdleProc]
    /\ dels = [f \in Files |-> IdleDel]
    /\ clr = "idle"
    /\ runStart = [store |-> {}, persisted |-> {}]
    /\ needsIndex = [f \in Files |-> FALSE]
    /\ budget = 0
    /\ gates = [g \in GateCalls |-> IdleGate]
    /\ stale = FALSE
    /\ embeds = [e \in EmbedCalls |-> IdleEmbed]
    /\ startup = "unset"
    /\ InitCalls

(* lines 557-558: vault.read returns and splitIntoChunks is called *)
BuildReadCall(b) ==
    /\ builds[b].pc = "read"
    /\ vault[builds[b].files[builds[b].fi]].exists
    /\ LET content == vault[builds[b].files[builds[b].fi]].content
       IN /\ builds' = [builds EXCEPT ![b].pc = "split", ![b].content = content]
          /\ chunking' = [IdleChunking EXCEPT !.pc = "call", !.content = content,
                                              !.cfg = ChunkingOf(settings)]
    /\ UNCHANGED <<vault, vectorStore, disk, settings, requirementsOk, isIndexing,
                   cancelIndexing, pendingFile, procs, dels, clr, runStart, needsIndex,
                   budget, gates, stale, embeds, startup, searches, cosine>>

(* lines 558-560: splitIntoChunks returns and the chunk loop is entered *)
BuildSplitReturns(b) ==
    /\ builds[b].pc = "split"
    /\ chunking.pc = "done"
    /\ LET r == [builds[b] EXCEPT !.chunks = chunking.chunks]
       IN builds' = [builds EXCEPT ![b] = BuildChunkLoop(r, 0, cancelIndexing, vectorStore)]
    /\ chunking' = IdleChunking
    /\ UNCHANGED <<vault, vectorStore, disk, settings, requirementsOk, isIndexing,
                   cancelIndexing, pendingFile, procs, dels, clr, runStart, needsIndex,
                   budget, gates, stale, embeds, startup, searches, cosine>>

(* no synchronous stretch of the rebuild is being run *)
AtAwait == chunking.pc = "idle"

(* the steps of the rebuild, from its call to its return *)
RebuildStep ==
    \/ \E b \in {"b1"} : BuildCallCached(b)
    \/ \E b \in {"b1"} : BuildCallCheck(b)
    \/ \E b \in {"b1"} : BuildNotReady(b)
    \/ \E b \in {"b1"} : BuildReady(b)
    \/ \E b \in {"b1"} : BuildReadFails(b)
    \/ \E b \in {"b1"} : BuildReadCall(b)
    \/ SplitWhole
    \/ SplitParagraph
    \/ SplitCharacter
    \/ CharacterStep
    \/ CharacterReturn
    \/ \E b \in {"b1"} : BuildSplitReturns(b)
    \/ \E b \in {"b1"} : BuildEmbedEmpty(b)
    \/ \E b \in {"b1"} : BuildEmbed(b)
    \/ \E b \in {"b1"} : BuildReload(b)
    \/ \E b \in {"b1"} : BuildWrite(b)
    \/ \E b \in {"b1"} : BuildDone(b)

(* the command and the 'delete' handler run while the rebuild awaits *)
CancelAtAwait == AtAwait /\ CancelCommand
DeleteAtAwait(f) == AtAwait /\ Delete(f)
DeleteWriteAtAwait(f) == AtAwait /\ DeleteWrite(f)

NextRebuildReturns ==
    \/ RebuildStep
    \/ CancelAtAwait
    \/ \E f \in Files : DeleteAtAwait(f)
    \/ \E f \in Files : DeleteWriteAtAwait(f)

(* every read, embedding call, load and save of the rebuild returns, and the *)
(* synchronous code between them is run                                       *)
SpecRebuildReturns ==
    InitRebuildReturns /\ [][NextRebuildReturns]_vars /\ WF_vars(RebuildStep)

(* C39: a rebuild that has started (isIndexing is true) comes back to idle  *)
(* (isIndexing is false), whether it completes, is cancelled or fails, for    *)
(* every chunking configuration the settings allow                            *)
C39_RebuildReturnsToIdle == isIndexing ~> ~isIndexing

----------------------------------------------------------------------------
(* JSON.stringify(payload) at line 209 and JSON.parse(raw) at line 173: a   *)
(* record comes back with its own properties; a number that is NaN is        *)
(* written as null                                                           *)
JsonNumber(x) == IF IsNumber(x) THEN x ELSE JNull

JsonRoundTrip(v) ==
    [n \in DOMAIN v |->
        IF n = "embedding" THEN [i \in 1..Len(v[n]) |-> JsonNumber(v[n][i])] ELSE v[n]]

(* the file saveVectorStore writes for the store m *)
SavedFile(m) ==
    LET payload == saveVectorStorePayload(m)
    IN DiskWith([j \in 1..Len(payload) |-> JsonRoundTrip(payload[j])])

(* C40: for every store that rebuilds, incremental updates and deletes      *)
(* produce, loadVectorStore of the file saveVectorStore writes gives a store  *)
(* with the same keys and under each key the same record                      *)
C40_SaveThenLoadRestoresStore ==
    LET loaded == loadVectorStore(SavedFile(vectorStore), settings.vectors)
    IN /\ Len(loaded) = Len(vectorStore)
       /\ Range(loaded) = Range(vectorStore)

(* a document has been modified and re-indexed: the store holds the record  *)
(* of its new content behind the records of the other document, it has been   *)
(* saved, and loading the file gives the store back                           *)
C40_Witness ==
    /\ Quiescent
    /\ vault["f1"].content = TextShort
    /\ RecordsOfPath(vectorStore, "a.md") = RecordsOfContent("a.md", TextShort)
    /\ \E j \in 1..Len(vectorStore) : vectorStore[j].value.chunkIndex # j - 1
    /\ disk = SavedFile(vectorStore)
    /\ loadVectorStore(disk, settings.vectors) = vectorStore

(* The stores of the claim: one rebuild and one processFile at a time,      *)
(* fed by edits and deletions of the documents                                *)
NextStores ==
    \/ NextIndexing
    \/ \E b \in {"b1"} : BuildReadFails(b)
    \/ \E f \in Files : Delete(f)
    \/ \E f \in Files : DeleteWrite(f)
    \/ \E p \in {"p1"} : ProcReadFails(p)

SpecStores == Init /\ [][NextStores]_vars

====
